---------------------------- MODULE Spec2Model ----------------------------
(***************************************************************************)
(* Tool-calling chat cycle of the Todo assistant backend.                  *)
(*                                                                         *)
(*   - parse_xml_tool_calls and the tag stripping of                       *)
(*     src/backend/src/agents/openrouter_assistant.py,                     *)
(*   - OpenRouterAssistant.process_message (both protocol branches),       *)
(*   - ChatService.process_chat_request and the send_chat_message          *)
(*     endpoint that wrap it,                                              *)
(*   - the task tools reachable by the chatbot (api/mcp.py and             *)
(*     agents/tool_executors.py).                                          *)
(*                                                                         *)
(* A text is a sequence of lexical tokens, the units the regular           *)
(* expressions of the source recognise:                                    *)
(*   "O"  <tool_call>           "C"  </tool_call>                          *)
(*   "Fa" <function=list_tasks> "Fb" <function=add_task>                   *)
(*   "Fx" <function=bogus>      (a name absent from TOOL_FUNCTIONS)        *)
(*   "P"  <parameter=title>     "E"  </parameter>                          *)
(*   "w"  a run of ordinary non-blank characters                           *)
(*   "s"  a run of white space                                             *)
(***************************************************************************)
EXTENDS Integers, Sequences, FiniteSets, TLC

VARIABLES
    ptext,      \* parse_xml_tool_calls: the argument `content`
    pcalls,     \* parse_xml_tool_calls: the returned list
    pdone,      \* TRUE once parse_xml_tool_calls has returned
    pc,         \* control point of the chat request
    req,        \* the request: user_id, conversation_id, message
    convOwner,  \* conversations table: id -> user_id (NoUser: no such row)
    msgStore,   \* messages table: conversation id -> rows by created_at
    conversation,   \* ChatService: the conversation of this request
    history,    \* ChatService: the messages loaded from the conversation
    context,    \* ChatService: the AgentContext built for the agent
    messages,   \* process_message: the `messages` list sent to the provider
    first,      \* the provider's answer to the first round-trip
    second,     \* the provider's answer to the second round-trip
    mode,       \* process_message: the branch taken for the first turn
    content,    \* process_message: `content` of the first assistant turn
    calls,      \* process_message: the calls of the turn in extraction order
    cursor,     \* process_message: index of the next call to dispatch
    tool_calls_data,    \* process_message: results recorded so far
    final_message,      \* process_message: `final_message`
    providerCalls,      \* number of provider round-trips made in this request
    invoked,    \* indices of the calls whose handler has been invoked, in order
    running,    \* index of the call whose handler is executing, 0 if none
    exc,        \* the exception propagating, "none" if none
    exc_text,   \* str() of that exception, "" if none
    agent_result,   \* what process_message returned
    http,        \* what the endpoint answered
    tasks,      \* tasks table: id -> row (exists, created_by, status, title)
    tool_result,    \* what the last task tool run returned
    convUpdated,    \* conversations table: id -> updated_at
    conv_result,    \* what the last call of ConversationService returned or raised
    ctx,        \* the building of an AgentContext from stored rows
    todo,       \* one call of process_message on a context, by either assistant
    pair        \* two chat requests in flight: 1 -> u1's request, 2 -> u2's

parseVars == <<ptext, pcalls, pdone>>

storeVars == <<convOwner, msgStore, convUpdated>>

\* state of the parts of the program that are specified alone
sideVars == <<conv_result, ctx, todo, pair>>

taskVars == <<tasks, tool_result>>

svcVars == <<req, conversation, history, context>>

agentVars == <<messages, first, second, mode, content, calls, cursor, tool_calls_data,
               final_message, providerCalls, invoked, running>>

vars == <<ptext, pcalls, pdone, pc, req, convOwner, msgStore, conversation,
          history, context, messages, first, second, mode, content, calls, cursor, tool_calls_data,
          final_message, providerCalls, invoked, running, exc, exc_text, agent_result, http,
          tasks, tool_result, convUpdated, conv_result, ctx,
          todo, pair>>

-----------------------------------------------------------------------------
(* Bounds *)

MaxTextLen == 5     \* longest free token sequence given to the parser
MaxSegs == 2        \* most segments concatenated into a model reply
MaxCalls == 2       \* most structured call requests in one model turn
MaxValueLen == 4    \* longest parameter value given to the parser

-----------------------------------------------------------------------------
(* Tokens *)

FunctionTags == {"Fa", "Fb", "Fx"}

ParseAlphabet == {"O", "C", "Fa", "Fb", "P", "E", "w"}

\* the NAME captured by <function=([^>]+)> after .strip()
FunctionName(tok) ==
    CASE tok = "Fa" -> "list_tasks"
      [] tok = "Fb" -> "add_task"
      [] tok = "Fx" -> "bogus"

\* index of the first token of `text` at or after `from` that is in `toks`, 0 if none
FirstIdx(text, toks, from) ==
    LET hits == {i \in from..Len(text) : text[i] \in toks}
    IN  IF hits = {} THEN 0 ELSE CHOOSE i \in hits : \A j \in hits : i <= j

\* index of the last token of `text` that is in `toks`, 0 if none
LastIdx(text, toks) ==
    LET hits == {i \in 1..Len(text) : text[i] \in toks}
    IN  IF hits = {} THEN 0 ELSE CHOOSE i \in hits : \A j \in hits : j <= i

\* str.strip(): leading and trailing white space removed
Strip(text) ==
    LET keep == {i \in 1..Len(text) : text[i] # "s"}
    IN  IF keep = {} THEN <<>>
        ELSE LET lo == CHOOSE i \in keep : \A j \in keep : i <= j
                 hi == CHOOSE i \in keep : \A j \in keep : j <= i
             IN  SubSeq(text, lo, hi)

\* all token sequences over `alphabet` of length at most n
TokenSeqs(alphabet, n) == UNION {[1..k -> alphabet] : k \in 0..n}

-----------------------------------------------------------------------------
(* parse_xml_tool_calls *)

\* a wrong block matcher: '<tool_call>(.*)</tool_call>' (greedy)
RECURSIVE ToolCallMatchesGreedy(_, _)
ToolCallMatchesGreedy(text, from) ==
    LET o == FirstIdx(text, {"O"}, from)
        c == LastIdx(text, {"C"})
    IN  IF o = 0 \/ c <= o THEN <<>>
        ELSE <<SubSeq(text, o + 1, c - 1)>>

\* re.findall(r'<tool_call>(.*?)</tool_call>', content, re.DOTALL):
\* leftmost <tool_call>, shortest span to a </tool_call>, then on from there
RECURSIVE ToolCallMatches(_, _)
ToolCallMatches(text, from) ==
    LET o == FirstIdx(text, {"O"}, from)
        c == IF o = 0 THEN 0 ELSE FirstIdx(text, {"C"}, o + 1)
    IN  IF o = 0 \/ c = 0 THEN <<>>
        ELSE <<SubSeq(text, o + 1, c - 1)>> \o ToolCallMatches(text, c + 1)

\* the characters of a parameter value: JSON punctuation, a digit, a blank
\* and a letter
ValueAlphabet == {"{", "}", "[", "]", "1", "s", "w"}

\* index of the first character of `text` at or after `from` that is not a
\* blank, Len(text) + 1 if none
SkipSpace(text, from) ==
    LET hits == {i \in from..Len(text) : text[i] # "s"}
    IN  IF hits = {} THEN Len(text) + 1 ELSE CHOOSE i \in hits : \A j \in hits : i <= j

\* the JSON scanner on these characters: the index after the value that starts
\* at `from` (blanks skipped), 0 if no value starts there.  A value is a
\* number (a run of digits), {} or a list of at most one value.
RECURSIVE JsonEnd(_, _)
JsonEnd(text, from) ==
    LET i == SkipSpace(text, from)
    IN  IF i > Len(text) THEN 0
        ELSE CASE text[i] = "1" ->
                    LET stop == {j \in (i + 1)..Len(text) : text[j] # "1"}
                    IN  IF stop = {} THEN Len(text) + 1
                        ELSE CHOOSE j \in stop : \A k \in stop : j <= k
               [] text[i] = "{" ->
                    LET j == SkipSpace(text, i + 1)
                    IN  IF j <= Len(text) /\ text[j] = "}" THEN j + 1 ELSE 0
               [] text[i] = "[" ->
                    LET j == SkipSpace(text, i + 1)
                    IN  IF j > Len(text) THEN 0
                        ELSE IF text[j] = "]" THEN j + 1
                        ELSE LET k == JsonEnd(text, j)
                                 m == IF k = 0 THEN 0 ELSE SkipSpace(text, k)
                             IN  IF k # 0 /\ m <= Len(text) /\ text[m] = "]"
                                 THEN m + 1 ELSE 0
               [] OTHER -> 0

NotSpace(tok) == tok # "s"

\* a structured (non-string) Python value, written as its JSON text without
\* blanks behind the mark "json"; no string value starts with that mark
Structured(doc) == <<"json">> \o doc

\* json.loads(param_value): the structured value, or JSONDecodeError when the
\* text is not one JSON value followed by nothing but blanks
json_loads_value(text) ==
    LET k == JsonEnd(text, 1)
    IN  IF k # 0 /\ SkipSpace(text, k) > Len(text)
        THEN [ok |-> TRUE, value |-> Structured(SelectSeq(text, NotSpace))]
        ELSE [ok |-> FALSE, value |-> <<>>]

\* a wrong conversion: every value is kept as its stripped text
ParamValueText(raw) == Strip(raw)

\* param_value = param_value.strip(); a value that starts with { or [ goes
\* through json.loads and is kept as the string when that raises
\* JSONDecodeError; any other value is the string
ParamValue(raw) ==
    LET param_value == Strip(raw)
    IN  IF param_value # <<>> /\ param_value[1] \in {"{", "["}
        THEN LET loaded == json_loads_value(param_value)
             IN  IF loaded.ok THEN loaded.value ELSE param_value
        ELSE param_value

\* re.findall(r'<parameter=([^>]+)>\s*(.*?)\s*</parameter>', ...): the list of
\* (name, value) pairs in source order, each value converted as in the loop
RECURSIVE ParamMatches(_, _)
ParamMatches(block, from) ==
    LET p == FirstIdx(block, {"P"}, from)
        e == IF p = 0 THEN 0 ELSE FirstIdx(block, {"E"}, p + 1)
    IN  IF p = 0 \/ e = 0 THEN <<>>
        ELSE <<[name |-> "title", value |-> ParamValue(SubSeq(block, p + 1, e - 1))]>>
             \o ParamMatches(block, e + 1)

\* arguments = {}; arguments[param_name] = value for each match in order
\* (a later value for the same name overwrites an earlier one)
Arguments(matches) ==
    [n \in {matches[i].name : i \in 1..Len(matches)} |->
        LET last == CHOOSE i \in 1..Len(matches) :
                        /\ matches[i].name = n
                        /\ \A j \in 1..Len(matches) : matches[j].name = n => j <= i
        IN  matches[last].value]

\* the loop body of parse_xml_tool_calls over the matched blocks
RECURSIVE CallsOfBlocks(_)
CallsOfBlocks(blocks) ==
    IF blocks = <<>> THEN <<>>
    ELSE LET block == Head(blocks)
             f == FirstIdx(block, FunctionTags, 1)
         IN  IF f = 0 THEN CallsOfBlocks(Tail(blocks))
             ELSE <<[name |-> FunctionName(block[f]),
                     arguments |-> Arguments(ParamMatches(block, 1))]>>
                  \o CallsOfBlocks(Tail(blocks))

parse_xml_tool_calls(text) == CallsOfBlocks(ToolCallMatches(text, 1))

-----------------------------------------------------------------------------
(* Model replies built from segments *)

SegKinds ==
    { <<"w">>,                              \* ordinary text
      <<"s">>,                              \* white space
      <<"O", "Fa", "C">>,                   \* list_tasks, no parameter
      <<"O", "Fb", "P", "s", "w", "E", "C">>,   \* add_task with a title
      <<"O", "Fb", "C">>,                   \* add_task without its title
      <<"O", "Fx", "C">>,                   \* a tool that is not registered
      <<"O", "C">>,                         \* a block without a function tag
      <<"O">>,                              \* an opening tag never closed
      <<"C">> }                             \* a closing tag never opened

RECURSIVE Flatten(_)
Flatten(segs) == IF segs = <<>> THEN <<>> ELSE Head(segs) \o Flatten(Tail(segs))

Contents == {Flatten(segs) : segs \in TokenSeqs(SegKinds, MaxSegs)}

-----------------------------------------------------------------------------
(* Values of the chat request *)

Users == {"u1", "u2"}
NoUser == "nobody"
ConvIds == {"c1", "c2", "c3"}
NoConv == "none"

\* TOOL_FUNCTIONS of tool_executors.py
TOOL_FUNCTIONS == {"add_task", "list_tasks", "complete_task", "delete_task", "update_task"}

\* get_tool_function(tool_name): TOOL_FUNCTIONS.get(tool_name), None if absent
get_tool_function(tool_name) == IF tool_name \in TOOL_FUNCTIONS THEN tool_name ELSE "None"

\* the fixed texts of process_message
CompletedText == <<"I've completed the task.">>
WorkingText == <<"I'm working on that for you.">>
HelpText == <<"I'm here to help!">>
DoneText == <<"Done!">>

\* the fixed texts of chat_service.py and api/chat.py
TroubleText == "I'm having trouble processing your request. Please try again."
UnexpectedText == "An unexpected error occurred. Please try again."
SorryText == "Sorry, I encountered an error processing your message. Please try again."

\* str(e) of an exception raised by a library call (database, HTTP client,
\* validation), and of the AgentProcessingError that wraps it
RaisedText == "connection refused"
FailedText == "Failed to process message: connection refused"

\* a Python value that is a str (a token sequence), None, or a name not bound
Text(t) == [kind |-> "text", text |-> t]
None == [kind |-> "null", text |-> <<>>]
Unbound == [kind |-> "unbound", text |-> <<>>]

\* the "arguments" strings of structured call requests
\*   "{}"            a JSON object without members
\*   "{title}"       a JSON object with the member "title"
\*   "5"             valid JSON that is not an object
\*   "{"             not valid JSON
\* json.loads of each: a dict (with its keys), another value, or JSONDecodeError
json_loads(s) ==
    CASE s = "{}"      -> [ok |-> TRUE, isdict |-> TRUE, keys |-> {}]
      [] s = "{title}" -> [ok |-> TRUE, isdict |-> TRUE, keys |-> {"title"}]
      [] s = "5"       -> [ok |-> TRUE, isdict |-> FALSE, keys |-> {}]
      [] OTHER         -> [ok |-> FALSE, isdict |-> FALSE, keys |-> {}]

\* the call requests a structured turn is drawn from
StructCallKinds ==
    { [name |-> "list_tasks", arguments |-> "{}"],
      [name |-> "add_task", arguments |-> "{title}"],
      [name |-> "add_task", arguments |-> "{}"],
      [name |-> "bogus", arguments |-> "{}"],
      [name |-> "list_tasks", arguments |-> "5"],
      [name |-> "list_tasks", arguments |-> "{"] }

StructTurns == TokenSeqs(StructCallKinds, MaxCalls) \ {<<>>}

\* the "content" of a turn that carries structured call requests
StructContents == {None, Text(<<>>), Text(<<"w">>), Text(<<"O", "Fa", "C">>)}

\* what the provider may answer to the first round-trip
\*   timeout    httpx raises (timeout, network error)
\*   error      a status other than 200
\*   malformed  status 200 with a body that has no choices[0].message
\*   ok         status 200 with an assistant message
FirstResponses ==
    {[status |-> s, tool_calls |-> <<>>, content |-> Text(<<>>)] :
        s \in {"timeout", "error", "malformed"}}
    \cup {[status |-> "ok", tool_calls |-> <<>>, content |-> c] :
            c \in {None} \cup {Text(t) : t \in Contents}}
    \cup {[status |-> "ok", tool_calls |-> tc, content |-> c] :
            tc \in StructTurns, c \in StructContents}

\* the texts a synthesis turn may carry
SynthTexts == { <<>>, <<"s">>, <<"w">>, <<"w", "O", "Fa", "C">>, <<"w", "O">>, <<"C", "w">> }

\* what the provider may answer to the second round-trip
SynthResponses ==
    {[status |-> s, content |-> Text(<<>>)] : s \in {"timeout", "error", "malformed"}}
    \cup {[status |-> "ok", content |-> c] : c \in {None} \cup {Text(t) : t \in SynthTexts}}

NoResponse == [status |-> "none", tool_calls |-> <<>>, content |-> Text(<<>>)]
NoSecond == [status |-> "none", content |-> Text(<<>>)]
NoRequest == [user_id |-> NoUser, conversation_id |-> NoConv]
NoContext == [user_id |-> NoUser, conversation_history |-> <<>>, conversation_id |-> NoConv]
NoResult == [returned |-> FALSE, message |-> <<>>, tool_calls |-> <<>>]
NoHttp == [status |-> 0, detail |-> "", message |-> <<>>, tool_calls |-> <<>>,
           conversation_id |-> NoConv]

-----------------------------------------------------------------------------
(* Helpers of the cycle *)

\* seq[-n:]
LastN(seq, n) == IF Len(seq) <= n THEN seq ELSE SubSeq(seq, Len(seq) - n + 1, Len(seq))

\* the first n elements: what ORDER BY created_at ASC LIMIT n selects
FirstN(seq, n) == IF Len(seq) <= n THEN seq ELSE SubSeq(seq, 1, n)

\* '<tool_call>' in text
HasOpenTag(text) == \E i \in 1..Len(text) : text[i] = "O"

\* '<tool_call>' or '</tool_call>' occurs in text
HasMarker(text) == \E i \in 1..Len(text) : text[i] \in {"O", "C"}

\* re.sub(r'<tool_call>.*?</tool_call>', '', text, flags=re.DOTALL)
RECURSIVE RemoveSpans(_, _)
RemoveSpans(text, from) ==
    LET o == FirstIdx(text, {"O"}, from)
        c == IF o = 0 THEN 0 ELSE FirstIdx(text, {"C"}, o + 1)
    IN  IF o = 0 \/ c = 0 THEN SubSeq(text, from, Len(text))
        ELSE SubSeq(text, from, o - 1) \o RemoveSpans(text, c + 1)

\* a wrong cleanup: the .strip() is left out
StripToolCallsUntrimmed(text) == RemoveSpans(text, 1)

\* re.sub(...).strip()
StripToolCalls(text) == Strip(RemoveSpans(text, 1))

\* the argument dict an inline call carries
XmlArgs(arguments) == [ok |-> TRUE, isdict |-> TRUE, keys |-> DOMAIN arguments]

\* `await tool_func(context, **function_args)` raises: the arguments are no
\* mapping, or do not fit the signature of the executor (the executors of
\* tool_executors.py catch every exception of their own bodies)
ToolRaises(tool_name, args) ==
    \/ ~args.isdict
    \/ tool_name = "list_tasks" /\ args.keys # {}
    \/ tool_name = "add_task" /\ "title" \notin args.keys
    \/ tool_name \in {"complete_task", "delete_task", "update_task"}
         /\ "task_id" \notin args.keys

\* a wrong recorder: the result is dropped
RecordDropped(data, idx, tool_name, args) == data

\* a wrong recorder: the newest result is put in front
RecordFront(data, idx, tool_name, args) ==
    <<[idx |-> idx, tool_name |-> tool_name, parameters |-> args,
       result |-> IF ToolRaises(tool_name, args) THEN "raised" ELSE "returned"]>> \o data

\* tool_calls_data.append({...}) of the try and of the except arm;
\* idx is the position of the call in the turn
Record(data, idx, tool_name, args) ==
    Append(data, [idx |-> idx, tool_name |-> tool_name, parameters |-> args,
                  result |-> IF ToolRaises(tool_name, args) THEN "raised" ELSE "returned"])

Entry(role, text) == [role |-> role, text |-> text, tool_call_id |-> 0, results |-> <<>>]

UserMessage == <<"w">>

\* a row of the messages table
Row(role, text, created_at) == [role |-> role, text |-> text, created_at |-> created_at]

\* ConversationMessage(role=msg.role, content=msg.content, timestamp=msg.created_at)
ConversationMessage(row) == Entry(row.role, row.text)

\* the three readings of datetime.utcnow() in save_messages: each is the one
\* before it or later
ClockSteps == {0, 1}

\* a wrong save: only the user message is stored
SavedRowsUserOnly(rows, updated_at, user_message, assistant_message, d1, d2, user_first) ==
    rows \o <<Row("user", user_message, updated_at + d1)>>

\* the rows of a conversation after save_messages has committed, in the order
\* ORDER BY created_at ASC gives them: rows with the same created_at stand in
\* the order the database chooses
SavedRows(rows, updated_at, user_message, assistant_message, d1, d2, user_first) ==
    LET user_msg == Row("user", user_message, updated_at + d1)
        assistant_msg == Row("assistant", assistant_message, updated_at + d1 + d2)
    IN  IF d2 > 0 \/ user_first
        THEN rows \o <<user_msg, assistant_msg>>
        ELSE rows \o <<assistant_msg, user_msg>>

NoConvResult ==
    [op |-> "none", user_id |-> NoUser, conversation_id |-> NoConv, raised |-> "none",
     conversation |-> NoConv, messages |-> <<>>]

\* no context is being built
NoCtx ==
    [stage |-> "idle", user_id |-> NoUser, rows |-> <<>>, raised |-> "none",
     history |-> <<>>, providerCalls |-> 0]

\* an AgentContext: the fields of the dataclass
AgentContext(user_id, conversation_history, conversation_id) ==
    [user_id |-> user_id, conversation_history |-> conversation_history,
     system_instructions |-> "instructions", available_tools |-> TOOL_FUNCTIONS,
     conversation_id |-> conversation_id]

\* no process_message is under way
NoTodo ==
    [assistant |-> "none", pc |-> "idle", context |-> AgentContext(NoUser, <<>>, NoConv),
     built |-> AgentContext(NoUser, <<>>, NoConv), parts |-> <<>>, cursor |-> 0,
     tool_calls_executed |-> <<>>, providerCalls |-> 0, has_text |-> FALSE,
     message |-> "none"]

\* a chat request that has not come in
NoPairRequest ==
    [pc |-> "idle", user_id |-> NoUser, conversation_id |-> NoConv, turn |-> "none",
     committed |-> FALSE, conversation |-> NoConv, history |-> <<>>,
     tool_calls |-> <<>>, message |-> "none", status |-> 0]

PairIdle == pair = [r \in 1..2 |-> NoPairRequest]

SideIdle == conv_result = NoConvResult /\ ctx = NoCtx /\ todo = NoTodo /\ PairIdle

-----------------------------------------------------------------------------
(* The chat request: endpoint, service, agent *)

CycleFields ==
    /\ pc = "idle"
    /\ req = NoRequest
    /\ convOwner = [c \in ConvIds |-> IF c = "c1" THEN "u1" ELSE NoUser]
    /\ convUpdated = [c \in ConvIds |-> IF c = "c1" THEN 2 ELSE 0]
    /\ conversation = NoConv
    /\ history = <<>>
    /\ context = NoContext
    /\ messages = <<>>
    /\ first = NoResponse
    /\ second = NoSecond
    /\ mode = "none"
    /\ content = Text(<<>>)
    /\ calls = <<>>
    /\ cursor = 0
    /\ tool_calls_data = <<>>
    /\ final_message = Unbound
    /\ providerCalls = 0
    /\ invoked = <<>>
    /\ running = 0
    /\ exc = "none"
    /\ exc_text = ""
    /\ agent_result = NoResult
    /\ http = NoHttp

CycleIdle == CycleFields /\ msgStore = [c \in ConvIds |-> <<>>]

ParseIdle == ptext = <<>> /\ pcalls = <<>> /\ pdone = FALSE

\* send_chat_message is entered: user_id is the authenticated user (validate_user_id),
\* conversation_id is None or a valid UUID (ChatRequest.validate_conversation_id)
SendChatMessage ==
    /\ pc = "idle"
    /\ \E u \in Users, c \in {NoConv, "c1", "c2"} :
          req' = [user_id |-> u, conversation_id |-> c]
    /\ pc' = "svc_conv"
    /\ UNCHANGED <<parseVars, taskVars, sideVars, storeVars, conversation, history, context, agentVars,
                   exc, exc_text, agent_result, http>>

\* ConversationService.get_or_create_conversation
GetOrCreateConversation ==
    /\ pc = "svc_conv"
    /\ IF req.conversation_id # NoConv /\ convOwner[req.conversation_id] = req.user_id
       THEN /\ conversation' = req.conversation_id
            /\ UNCHANGED <<convOwner, convUpdated>>
       ELSE \E new \in ConvIds :
              /\ convOwner[new] = NoUser
              /\ new # req.conversation_id
              /\ convOwner' = [convOwner EXCEPT ![new] = req.user_id]
              /\ convUpdated' = [convUpdated EXCEPT ![new] = 0]
              /\ conversation' = new
    /\ pc' = "svc_history"
    /\ UNCHANGED <<parseVars, taskVars, sideVars, req, msgStore, history, context, agentVars, exc, exc_text,
                   agent_result, http>>

\* a database statement of steps 1-3 raises (connection lost, statement error)
DatabaseFails ==
    /\ pc \in {"svc_conv", "svc_history"}
    /\ exc' = "Exception"
    /\ exc_text' = RaisedText
    /\ pc' = "svc_except"
    /\ UNCHANGED <<parseVars, taskVars, sideVars, svcVars, storeVars, agentVars, agent_result, http>>

HistoryLimit == 50
HistoryWindow == 10

\* ConversationService.get_conversation_history(..., limit=50)
GetConversationHistory ==
    /\ pc = "svc_history"
    /\ convOwner[conversation] = req.user_id
    /\ history' = LET rows == FirstN(msgStore[conversation], HistoryLimit)
                   IN  [i \in 1..Len(rows) |-> ConversationMessage(rows[i])]
    /\ pc' = "svc_context"
    /\ UNCHANGED <<parseVars, taskVars, sideVars, req, conversation, context, storeVars, agentVars, exc, exc_text,
                   agent_result, http>>

\* ChatService._build_agent_context
BuildAgentContext ==
    /\ pc = "svc_context"
    /\ IF req.user_id \in Users
       THEN /\ context' = [user_id |-> req.user_id, conversation_history |-> history,
                           conversation_id |-> conversation]
            /\ pc' = "agent_build"
            /\ UNCHANGED <<exc, exc_text>>
       ELSE /\ exc' = "ValueError"
            /\ exc_text' = RaisedText
            /\ pc' = "svc_except"
            /\ UNCHANGED context
    /\ UNCHANGED <<parseVars, taskVars, sideVars, req, conversation, history, storeVars, agentVars,
                   agent_result, http>>

\* process_message, lines 139-156: the messages of the first request
BuildMessages ==
    /\ pc = "agent_build"
    /\ messages' = <<Entry("system", <<"instructions">>)>>
                   \o LastN(context.conversation_history, HistoryWindow)
                   \o <<Entry("user", UserMessage)>>
    /\ pc' = "agent_first"
    /\ UNCHANGED <<parseVars, taskVars, sideVars, svcVars, storeVars, first, second, mode, content, calls, cursor,
                   tool_calls_data, final_message, providerCalls, invoked, running,
                   exc, exc_text, agent_result, http>>

\* a wrong reading of the first answer: the status is not looked at
FirstTurnRaisesAnyStatus(r) ==
    \/ r.status \in {"timeout", "malformed"}
    \/ r.content.kind # "text"

\* lines 159-191 raise: httpx raised, status != 200 (line 182), no
\* choices[0].message in the body (lines 184-188), or len(content) of a null
\* content (line 191)
FirstTurnRaises(r) ==
    \/ r.status # "ok"
    \/ r.content.kind # "text"

\* process_message, lines 159-191: the first round-trip and the reading of its answer
FirstTurn ==
    /\ pc = "agent_first"
    /\ \E r \in FirstResponses :
          /\ first' = r
          /\ IF ~FirstTurnRaises(r)
             THEN /\ content' = r.content
                  /\ pc' = "agent_branch"
                  /\ UNCHANGED <<exc, exc_text>>
             ELSE /\ exc' = "Exception"
                  /\ exc_text' = RaisedText
                  /\ pc' = "agent_except"
                  /\ UNCHANGED content
    /\ providerCalls' = providerCalls + 1
    /\ UNCHANGED <<parseVars, taskVars, sideVars, svcVars, storeVars, messages, second, mode, calls, cursor,
                   tool_calls_data, final_message, invoked, running, agent_result, http>>

\* parse_xml_tool_calls over the texts a first turn can carry, computed once
xml_tool_calls_of == [text \in Contents |-> parse_xml_tool_calls(text)]

\* a wrong branch: the inline blocks of the text are looked at before the
\* structured call requests
BranchInlineFirst ==
    /\ pc = "agent_branch"
    /\ IF content.text # <<>> /\ HasOpenTag(content.text)
          /\ xml_tool_calls_of[content.text] # <<>>
       THEN /\ mode' = "xml"
            /\ calls' = xml_tool_calls_of[content.text]
            /\ cursor' = 1
            /\ pc' = "dispatch_x"
            /\ UNCHANGED final_message
       ELSE IF first.tool_calls # <<>>
       THEN /\ mode' = "structured"
            /\ calls' = first.tool_calls
            /\ cursor' = 1
            /\ pc' = "dispatch_s"
            /\ UNCHANGED final_message
       ELSE /\ mode' = "plain"
            /\ final_message' = IF content.text = <<>> THEN Text(HelpText) ELSE content
            /\ pc' = "cleanup"
            /\ UNCHANGED <<calls, cursor>>
    /\ UNCHANGED <<parseVars, taskVars, sideVars, svcVars, storeVars, messages, first, second, content,
                   tool_calls_data, providerCalls, invoked, running, exc, exc_text,
                   agent_result, http>>

\* process_message, lines 194-199, 257-263, 328-334: the branch taken
Branch ==
    /\ pc = "agent_branch"
    /\ IF first.tool_calls # <<>>
       THEN /\ mode' = "structured"
            /\ calls' = first.tool_calls
            /\ cursor' = 1
            /\ pc' = "dispatch_s"
            /\ UNCHANGED final_message
       ELSE IF content.text # <<>> /\ HasOpenTag(content.text)
       THEN LET xml_tool_calls == xml_tool_calls_of[content.text]
            IN  IF xml_tool_calls # <<>>
                THEN /\ mode' = "xml"
                     /\ calls' = xml_tool_calls
                     /\ cursor' = 1
                     /\ pc' = "dispatch_x"
                     /\ UNCHANGED final_message
                ELSE /\ mode' = "xml_none"
                     /\ final_message' =
                           IF StripToolCalls(content.text) = <<>> THEN Text(WorkingText)
                           ELSE Text(StripToolCalls(content.text))
                     /\ pc' = "cleanup"
                     /\ UNCHANGED <<calls, cursor>>
       ELSE /\ mode' = "plain"
            /\ final_message' = IF content.text = <<>> THEN Text(HelpText) ELSE content
            /\ pc' = "cleanup"
            /\ UNCHANGED <<calls, cursor>>
    /\ UNCHANGED <<parseVars, taskVars, sideVars, svcVars, storeVars, messages, first, second, content,
                   tool_calls_data, providerCalls, invoked, running, exc, exc_text,
                   agent_result, http>>

\* process_message, lines 199-209: one structured call request is taken up
DispatchStructured ==
    /\ pc = "dispatch_s"
    /\ cursor <= Len(calls)
    /\ running = 0
    /\ LET function_name == calls[cursor].name
           function_args == json_loads(calls[cursor].arguments)
       IN  IF ~function_args.ok
           THEN \* json.loads raises JSONDecodeError
                /\ exc' = "Exception"
                /\ exc_text' = RaisedText
                /\ pc' = "agent_except"
                /\ UNCHANGED <<cursor, invoked, running>>
           ELSE IF get_tool_function(function_name) = "None"
           THEN \* `if tool_func:` is false: nothing is recorded
                /\ cursor' = cursor + 1
                /\ UNCHANGED <<pc, exc, exc_text, invoked, running>>
           ELSE /\ running' = cursor
                /\ invoked' = Append(invoked, cursor)
                /\ UNCHANGED <<pc, exc, exc_text, cursor>>
    /\ UNCHANGED <<parseVars, taskVars, sideVars, svcVars, storeVars, messages, first, second, mode, content, calls,
                   tool_calls_data, final_message, providerCalls, agent_result, http>>

\* process_message, lines 209-221: the executor returns or raises, the result is recorded
StructuredToolCompletes ==
    /\ pc = "dispatch_s"
    /\ running # 0
    /\ tool_calls_data' = Record(tool_calls_data, running, calls[running].name,
                                 json_loads(calls[running].arguments))
    /\ running' = 0
    /\ cursor' = cursor + 1
    /\ UNCHANGED <<parseVars, taskVars, sideVars, svcVars, storeVars, messages, first, second, mode, content, calls,
                   final_message, providerCalls, invoked, pc, exc, exc_text, agent_result, http>>

\* process_message, lines 223-232: the assistant turn and one tool message per
\* call request are appended; tool_calls_data[i] is read for the i-th request
StructuredFeedback ==
    /\ pc = "dispatch_s"
    /\ cursor > Len(calls)
    /\ IF tool_calls_data = <<>>
       THEN /\ pc' = "cleanup"
            /\ UNCHANGED <<messages, exc, exc_text>>
       ELSE IF Len(tool_calls_data) < Len(calls)
       THEN \* tool_calls_data[i]: IndexError
            /\ exc' = "Exception"
            /\ exc_text' = RaisedText
            /\ pc' = "agent_except"
            /\ UNCHANGED messages
       ELSE /\ messages' = messages
                  \o <<[role |-> "assistant", text |-> content.text, tool_call_id |-> 0,
                        results |-> <<>>]>>
                  \o [i \in 1..Len(calls) |->
                        [role |-> "tool", text |-> <<>>, tool_call_id |-> i,
                         results |-> <<tool_calls_data[i]>>]]
            /\ pc' = "synth_s"
            /\ UNCHANGED <<exc, exc_text>>
    /\ UNCHANGED <<parseVars, taskVars, sideVars, svcVars, storeVars, first, second, mode, content, calls, cursor,
                   tool_calls_data, final_message, providerCalls, invoked, running,
                   agent_result, http>>

\* the outcome of the second round-trip (lines 235-255 and 307-327):
\* httpx raises or the body has no choices[0].message.content -> an exception;
\* status 200 -> the content of the body; another status -> the fixed text
SynthesisRaises(r) == r.status \in {"timeout", "malformed"}

SynthesisMessage(r) == IF r.status = "ok" THEN r.content ELSE Text(CompletedText)

\* process_message, lines 235-255
SynthesisStructured ==
    /\ pc = "synth_s"
    /\ \E r \in SynthResponses :
          /\ second' = r
          /\ IF SynthesisRaises(r)
             THEN /\ exc' = "Exception"
                  /\ exc_text' = RaisedText
                  /\ pc' = "agent_except"
                  /\ UNCHANGED final_message
             ELSE /\ final_message' = SynthesisMessage(r)
                  /\ pc' = "cleanup"
                  /\ UNCHANGED <<exc, exc_text>>
    /\ providerCalls' = providerCalls + 1
    /\ UNCHANGED <<parseVars, taskVars, sideVars, svcVars, storeVars, messages, first, mode, content, calls,
                   cursor, tool_calls_data, invoked, running, agent_result, http>>

\* process_message, lines 265-275: one inline call is taken up
DispatchXml ==
    /\ pc = "dispatch_x"
    /\ cursor <= Len(calls)
    /\ running = 0
    /\ IF get_tool_function(calls[cursor].name) = "None"
       THEN /\ cursor' = cursor + 1
            /\ UNCHANGED <<invoked, running>>
       ELSE /\ running' = cursor
            /\ invoked' = Append(invoked, cursor)
            /\ UNCHANGED cursor
    /\ UNCHANGED <<parseVars, taskVars, sideVars, svcVars, storeVars, messages, first, second, mode, content, calls,
                   tool_calls_data, final_message, providerCalls, pc, exc, exc_text,
                   agent_result, http>>

\* process_message, lines 275-287
XmlToolCompletes ==
    /\ pc = "dispatch_x"
    /\ running # 0
    /\ tool_calls_data' = Record(tool_calls_data, running, calls[running].name,
                                 XmlArgs(calls[running].arguments))
    /\ running' = 0
    /\ cursor' = cursor + 1
    /\ UNCHANGED <<parseVars, taskVars, sideVars, svcVars, storeVars, messages, first, second, mode, content, calls,
                   final_message, providerCalls, invoked, pc, exc, exc_text, agent_result, http>>

\* process_message, lines 289-305: the summary of the results is appended
XmlFeedback ==
    /\ pc = "dispatch_x"
    /\ cursor > Len(calls)
    /\ IF tool_calls_data = <<>>
       THEN /\ pc' = "cleanup"
            /\ UNCHANGED messages
       ELSE /\ messages' = messages
                  \o <<[role |-> "assistant", text |-> content.text, tool_call_id |-> 0,
                        results |-> <<>>],
                       [role |-> "user", text |-> <<"Tool execution results">>,
                        tool_call_id |-> 0, results |-> tool_calls_data]>>
            /\ pc' = "synth_x"
    /\ UNCHANGED <<parseVars, taskVars, sideVars, svcVars, storeVars, first, second, mode, content, calls, cursor,
                   tool_calls_data, final_message, providerCalls, invoked, running,
                   exc, exc_text, agent_result, http>>

\* process_message, lines 307-327
SynthesisXml ==
    /\ pc = "synth_x"
    /\ \E r \in SynthResponses :
          /\ second' = r
          /\ IF SynthesisRaises(r)
             THEN /\ exc' = "Exception"
                  /\ exc_text' = RaisedText
                  /\ pc' = "agent_except"
                  /\ UNCHANGED final_message
             ELSE /\ final_message' = SynthesisMessage(r)
                  /\ pc' = "cleanup"
                  /\ UNCHANGED <<exc, exc_text>>
    /\ providerCalls' = providerCalls + 1
    /\ UNCHANGED <<parseVars, taskVars, sideVars, svcVars, storeVars, messages, first, mode, content, calls,
                   cursor, tool_calls_data, invoked, running, agent_result, http>>

\* process_message, lines 336-344: the final cleanup and the return;
\* final_message not bound (UnboundLocalError) or None (TypeError) raises
Cleanup ==
    /\ pc = "cleanup"
    /\ IF final_message.kind # "text"
       THEN /\ exc' = "Exception"
            /\ exc_text' = RaisedText
            /\ pc' = "agent_except"
            /\ UNCHANGED agent_result
       ELSE /\ agent_result' =
                  [returned |-> TRUE,
                   message |-> IF StripToolCalls(final_message.text) = <<>> THEN DoneText
                               ELSE StripToolCalls(final_message.text),
                   tool_calls |-> tool_calls_data]
            /\ pc' = "svc_save"
            /\ UNCHANGED <<exc, exc_text>>
    /\ UNCHANGED <<parseVars, taskVars, sideVars, svcVars, storeVars, agentVars, http>>

\* process_message, lines 346-348: any exception leaves as AgentProcessingError
AgentExcept ==
    /\ pc = "agent_except"
    /\ exc' = "AgentProcessingError"
    /\ exc_text' = FailedText
    /\ pc' = "svc_agent_error"
    /\ UNCHANGED <<parseVars, taskVars, sideVars, svcVars, storeVars, agentVars, agent_result, http>>

\* process_chat_request, lines 118-122 and 153-155
AgentErrorToChatServiceError ==
    /\ pc = "svc_agent_error"
    /\ exc' = "ChatServiceError"
    /\ exc_text' = TroubleText
    /\ pc' = "api_except"
    /\ UNCHANGED <<parseVars, taskVars, sideVars, svcVars, storeVars, agentVars, agent_result, http>>

\* ConversationService.save_messages as called at lines 125-136: both rows are
\* committed, or the commit fails, is rolled back and ConversationServiceError
\* is swallowed by the caller; or the lookup of the conversation at the head
\* of save_messages raises a database error, which is no
\* ConversationServiceError and leaves through the outer handler
SaveMessages ==
    /\ pc = "svc_save"
    /\ \/ /\ \E committed \in BOOLEAN, d1, d2, d3 \in ClockSteps, user_first \in BOOLEAN :
               IF committed
               THEN /\ msgStore' = [msgStore EXCEPT ![conversation] =
                                      SavedRows(@, convUpdated[conversation], UserMessage,
                                                agent_result.message, d1, d2, user_first)]
                    /\ convUpdated' = [convUpdated EXCEPT ![conversation] = @ + d1 + d2 + d3]
               ELSE UNCHANGED <<msgStore, convUpdated>>
          /\ pc' = "svc_response"
          /\ UNCHANGED <<exc, exc_text>>
       \/ /\ exc' = "Exception"
          /\ exc_text' = RaisedText
          /\ pc' = "svc_except"
          /\ UNCHANGED <<msgStore, convUpdated>>
    /\ UNCHANGED <<parseVars, taskVars, sideVars, svcVars, convOwner, agentVars,
                   agent_result, http>>

\* process_chat_request, lines 138-151: ChatResponse(...) validates that the
\* parameters of every tool call are a dict; pydantic's ValidationError is a
\* ValueError
BuildResponse ==
    /\ pc = "svc_response"
    /\ IF \E i \in 1..Len(agent_result.tool_calls) :
             ~agent_result.tool_calls[i].parameters.isdict
       THEN /\ exc' = "ValueError"
            /\ exc_text' = RaisedText
            /\ pc' = "svc_except"
       ELSE /\ pc' = "api_return"
            /\ UNCHANGED <<exc, exc_text>>
    /\ UNCHANGED <<parseVars, taskVars, sideVars, svcVars, storeVars, agentVars, agent_result, http>>

\* a wrong handler: the exception leaves process_chat_request as it is
UnexpectedPropagates ==
    /\ pc = "svc_except"
    /\ pc' = "api_except"
    /\ UNCHANGED <<parseVars, taskVars, sideVars, svcVars, storeVars, agentVars, exc, exc_text,
                   agent_result, http>>

\* process_chat_request, lines 157-161
UnexpectedToChatServiceError ==
    /\ pc = "svc_except"
    /\ exc' = "ChatServiceError"
    /\ exc_text' = UnexpectedText
    /\ pc' = "api_except"
    /\ UNCHANGED <<parseVars, taskVars, sideVars, svcVars, storeVars, agentVars, agent_result, http>>

\* send_chat_message, lines 106-111
ApiReturn ==
    /\ pc = "api_return"
    /\ http' = [status |-> 200, detail |-> "", message |-> agent_result.message,
                tool_calls |-> agent_result.tool_calls, conversation_id |-> conversation]
    /\ pc' = "done"
    /\ UNCHANGED <<parseVars, taskVars, sideVars, svcVars, storeVars, agentVars, exc, exc_text, agent_result>>

\* a wrong endpoint: without the `except Exception` arm of lines 127-144
ApiExceptTypedOnly ==
    /\ pc = "api_except"
    /\ IF exc \in {"ValueError", "PermissionError"}
       THEN /\ http' = [status |-> IF exc = "ValueError" THEN 400 ELSE 403,
                        detail |-> exc_text, message |-> <<>>, tool_calls |-> <<>>,
                        conversation_id |-> NoConv]
            /\ pc' = "done"
       ELSE /\ pc' = "unhandled"
            /\ UNCHANGED http
    /\ UNCHANGED <<parseVars, taskVars, sideVars, svcVars, storeVars, agentVars, exc, exc_text, agent_result>>

\* send_chat_message, lines 113-144
ApiExcept ==
    /\ pc = "api_except"
    /\ http' = [status |-> CASE exc = "ValueError" -> 400
                             [] exc = "PermissionError" -> 403
                             [] OTHER -> 500,
                detail |-> IF exc \in {"ValueError", "PermissionError"} THEN exc_text
                           ELSE SorryText,
                message |-> <<>>, tool_calls |-> <<>>, conversation_id |-> NoConv]
    /\ pc' = "done"
    /\ UNCHANGED <<parseVars, taskVars, sideVars, svcVars, storeVars, agentVars, exc, exc_text, agent_result>>

-----------------------------------------------------------------------------
(* The task tools: api/mcp.py, agents/tool_executors.py, mcp/tools *)

MaxTasks == 2

TaskIds == 1..MaxTasks

\* the titles a request may carry; "" stands for an absent or empty title
Titles == {"", "a", "b"}

NoTask == [exists |-> FALSE, created_by |-> NoUser, status |-> "TO_DO", title |-> ""]

\* layer: which implementation ran; owner: created_by of the row the call named,
\* read before the call (NoUser if there was no such row); tasks: the ids returned
NoToolResult ==
    [layer |-> "none", tool |-> "none", user_id |-> NoUser, task_id |-> 0,
     owner |-> NoUser, error |-> "none", tasks |-> {}]

ToolResult(layer, tool, user_id, task_id, error, returned) ==
    [layer |-> layer, tool |-> tool, user_id |-> user_id, task_id |-> task_id,
     owner |-> IF task_id \in TaskIds THEN tasks[task_id].created_by ELSE NoUser,
     error |-> error, tasks |-> returned]

TasksIdle == tasks = [id \in TaskIds |-> NoTask] /\ tool_result = NoToolResult

\* TaskService.get_user_tasks
get_user_tasks(store, user_id) ==
    {id \in TaskIds : store[id].exists /\ store[id].created_by = user_id}

\* api/mcp.py add_task: the row gets a fresh id
api_mcp_add_task ==
    /\ \E id \in TaskIds : ~tasks[id].exists
    /\ \E user_id \in Users, title \in Titles :
          LET id == CHOOSE i \in TaskIds :
                      ~tasks[i].exists /\ \A j \in TaskIds : ~tasks[j].exists => i <= j
          IN  /\ tasks' = [tasks EXCEPT ![id] = [exists |-> TRUE, created_by |-> user_id,
                                                 status |-> "TO_DO", title |-> title]]
              /\ tool_result' = ToolResult("api", "add_task", user_id, 0, "none", {id})
    /\ UNCHANGED <<parseVars, sideVars, pc, svcVars, storeVars, agentVars, exc, exc_text, agent_result, http>>

\* api/mcp.py list_tasks
api_mcp_list_tasks ==
    /\ \E user_id \in Users, completed \in {"None", "True", "False"} :
          LET user_tasks == get_user_tasks(tasks, user_id)
              kept == CASE completed = "None" -> user_tasks
                        [] completed = "True" -> {id \in user_tasks : tasks[id].status = "DONE"}
                        [] OTHER -> {id \in user_tasks : tasks[id].status # "DONE"}
          IN  tool_result' = ToolResult("api", "list_tasks", user_id, 0, "none", kept)
    /\ UNCHANGED <<parseVars, sideVars, pc, svcVars, storeVars, agentVars, exc, exc_text, agent_result, http, tasks>>

\* api/mcp.py complete_task
api_mcp_complete_task ==
    /\ \E user_id \in Users, task_id \in TaskIds :
          IF ~tasks[task_id].exists
          THEN /\ tool_result' = ToolResult("api", "complete_task", user_id, task_id,
                                            "Task not found", {})
               /\ UNCHANGED tasks
          ELSE IF tasks[task_id].created_by # user_id
          THEN /\ tool_result' = ToolResult("api", "complete_task", user_id, task_id,
                                            "Not authorized", {})
               /\ UNCHANGED tasks
          ELSE /\ tasks' = [tasks EXCEPT ![task_id].status = "DONE"]
               /\ tool_result' = ToolResult("api", "complete_task", user_id, task_id,
                                            "none", {task_id})
    /\ UNCHANGED <<parseVars, sideVars, pc, svcVars, storeVars, agentVars, exc, exc_text, agent_result, http>>

\* api/mcp.py delete_task
api_mcp_delete_task ==
    /\ \E user_id \in Users, task_id \in TaskIds :
          IF ~tasks[task_id].exists
          THEN /\ tool_result' = ToolResult("api", "delete_task", user_id, task_id,
                                            "Task not found", {})
               /\ UNCHANGED tasks
          ELSE IF tasks[task_id].created_by # user_id
          THEN /\ tool_result' = ToolResult("api", "delete_task", user_id, task_id,
                                            "Not authorized", {})
               /\ UNCHANGED tasks
          ELSE /\ tasks' = [tasks EXCEPT ![task_id] = NoTask]
               /\ tool_result' = ToolResult("api", "delete_task", user_id, task_id,
                                            "none", {})
    /\ UNCHANGED <<parseVars, sideVars, pc, svcVars, storeVars, agentVars, exc, exc_text, agent_result, http>>

\* api/mcp.py update_task
api_mcp_update_task ==
    /\ \E user_id \in Users, task_id \in TaskIds, title \in Titles :
          IF title = ""
          THEN /\ tool_result' = ToolResult("api", "update_task", user_id, task_id,
                                            "At least one field", {})
               /\ UNCHANGED tasks
          ELSE IF ~tasks[task_id].exists
          THEN /\ tool_result' = ToolResult("api", "update_task", user_id, task_id,
                                            "Task not found", {})
               /\ UNCHANGED tasks
          ELSE IF tasks[task_id].created_by # user_id
          THEN /\ tool_result' = ToolResult("api", "update_task", user_id, task_id,
                                            "Not authorized", {})
               /\ UNCHANGED tasks
          ELSE /\ tasks' = [tasks EXCEPT ![task_id].title = title]
               /\ tool_result' = ToolResult("api", "update_task", user_id, task_id,
                                            "none", {task_id})
    /\ UNCHANGED <<parseVars, sideVars, pc, svcVars, storeVars, agentVars, exc, exc_text, agent_result, http>>

\* str(e) of the exceptions the database layer can raise inside an executor:
\* one that tells nothing, one that holds a connection string
ExceptionTexts == {"connection refused", "postgresql://app:secret@db/todo"}

\* the texts that hold one of the sensitive_patterns of safe_error_message
SensitiveTexts == {"postgresql://app:secret@db/todo"}

\* mcp/utils/errors.py safe_error_message
safe_error_message(error_message) ==
    IF error_message \in SensitiveTexts THEN "An error occurred" ELSE error_message

\* tool_executors.list_tasks: the rows of the user, or, when the session raises,
\* `except Exception as e: return {"error": str(e)}`
executors_list_tasks ==
    /\ \E user_id \in Users, raised \in {"none"} \cup ExceptionTexts :
          tool_result' = IF raised = "none"
                         THEN ToolResult("executors", "list_tasks", user_id, 0, "none",
                                         get_user_tasks(tasks, user_id))
                         ELSE ToolResult("executors", "list_tasks", user_id, 0, raised, {})
    /\ UNCHANGED <<parseVars, sideVars, pc, svcVars, storeVars, agentVars, exc, exc_text, agent_result, http, tasks>>

\* tool_executors.add_task: the user row is found, then
\* TaskService.create_task_simple(...), which TaskService does not define; the
\* AttributeError is caught by `except Exception` and returned as {"error": str(e)}
executors_add_task ==
    /\ \E user_id \in Users, title \in Titles :
          tool_result' = ToolResult("executors", "add_task", user_id, 0,
                                    "has no attribute 'create_task_simple'", {})
    /\ UNCHANGED <<parseVars, sideVars, pc, svcVars, storeVars, agentVars, exc, exc_text, agent_result, http, tasks>>

\* what complete_task, delete_task and update_task of tool_executors begin with:
\* TaskService.get_task_by_id(...), which TaskService does not define; the
\* AttributeError is caught by `except Exception` and returned as {"error": str(e)}
get_task_by_id_error == "has no attribute 'get_task_by_id'"

\* tool_executors.complete_task
executors_complete_task ==
    /\ \E user_id \in Users, task_id \in TaskIds :
          tool_result' = ToolResult("executors", "complete_task", user_id, task_id,
                                    get_task_by_id_error, {})
    /\ UNCHANGED <<parseVars, sideVars, pc, svcVars, storeVars, agentVars, exc, exc_text, agent_result, http, tasks>>

\* tool_executors.delete_task
executors_delete_task ==
    /\ \E user_id \in Users, task_id \in TaskIds :
          tool_result' = ToolResult("executors", "delete_task", user_id, task_id,
                                    get_task_by_id_error, {})
    /\ UNCHANGED <<parseVars, sideVars, pc, svcVars, storeVars, agentVars, exc, exc_text, agent_result, http, tasks>>

\* tool_executors.update_task
executors_update_task ==
    /\ \E user_id \in Users, task_id \in TaskIds, title \in Titles :
          tool_result' = ToolResult("executors", "update_task", user_id, task_id,
                                    get_task_by_id_error, {})
    /\ UNCHANGED <<parseVars, sideVars, pc, svcVars, storeVars, agentVars, exc, exc_text, agent_result, http, tasks>>

\* mcp/tools/complete_task.py: TaskService(session) is a call of a class without
\* __init__ with one argument; the TypeError goes to handle_tool_error
mcp_tools_complete_task ==
    /\ \E user_id \in Users, task_id \in TaskIds :
          tool_result' = ToolResult("mcp_tools", "complete_task", user_id, task_id,
                                    "VALIDATION_ERROR", {})
    /\ UNCHANGED <<parseVars, sideVars, pc, svcVars, storeVars, agentVars, exc, exc_text, agent_result, http, tasks>>

-----------------------------------------------------------------------------
(* ConversationService, each method called with any arguments *)

MaxSaves == 1

\* an id that uuid.UUID() rejects
BadId == "not-a-uuid"

OldText == <<"old">>

ReplyText == <<"reply">>

\* a conversation that already holds n rows, the last one written when the
\* conversation was last updated (updated_at = 2)
OldRows(n) ==
    [i \in 1..n |-> Row(IF i % 2 = 1 THEN "user" ELSE "assistant", OldText, 2 - (n - i))]

\* the rows save_messages has added so far, over all conversations
SavedCount ==
    Cardinality({<<c, i>> \in ConvIds \X (1..(HistoryLimit + 2 * MaxSaves + 2)) :
                    i <= Len(msgStore[c]) /\ msgStore[c][i].text # OldText})

ConvResult(op, user_id, conversation_id, raised, conversation_, rows) ==
    [op |-> op, user_id |-> user_id, conversation_id |-> conversation_id, raised |-> raised,
     conversation |-> conversation_, messages |-> rows]

\* a wrong query: without the Conversation.user_id == user_uuid of the where clause
get_conversation_raises_any_user(owner, conversation_id, user_id) ==
    IF conversation_id = BadId \/ user_id = BadId THEN "ValueError"
    ELSE IF owner[conversation_id] = NoUser THEN "ConversationNotFoundError"
    ELSE "none"

\* ConversationService.get_conversation: what it raises, "none" if it returns the row
get_conversation_raises(owner, conversation_id, user_id) ==
    IF conversation_id = BadId \/ user_id = BadId THEN "ValueError"
    ELSE IF owner[conversation_id] = NoUser \/ owner[conversation_id] # user_id
    THEN "ConversationNotFoundError"
    ELSE "none"

\* ConversationService.create_conversation
create_conversation ==
    /\ \E new \in ConvIds : convOwner[new] = NoUser
    /\ \E user_id \in Users \cup {BadId} :
          IF user_id = BadId
          THEN /\ conv_result' = ConvResult("create_conversation", user_id, NoConv,
                                            "ValueError", NoConv, <<>>)
               /\ UNCHANGED <<convOwner, convUpdated>>
          ELSE \E new \in ConvIds :
                 /\ convOwner[new] = NoUser
                 /\ convOwner' = [convOwner EXCEPT ![new] = user_id]
                 /\ convUpdated' = [convUpdated EXCEPT ![new] = 0]
                 /\ conv_result' = ConvResult("create_conversation", user_id, NoConv,
                                              "none", new, <<>>)
    /\ UNCHANGED <<parseVars, taskVars, ctx, todo, pair, pc, svcVars, msgStore, agentVars, exc, exc_text, agent_result,
                   http>>

\* ConversationService.get_conversation
get_conversation ==
    /\ \E user_id \in Users \cup {BadId}, conversation_id \in ConvIds \cup {BadId} :
          LET raised == get_conversation_raises(convOwner, conversation_id, user_id)
          IN  conv_result' = ConvResult("get_conversation", user_id, conversation_id, raised,
                                        IF raised = "none" THEN conversation_id ELSE NoConv,
                                        <<>>)
    /\ UNCHANGED <<parseVars, taskVars, ctx, todo, pair, pc, svcVars, storeVars, agentVars, exc, exc_text, agent_result,
                   http>>

\* ConversationService.get_conversation_history with limit=50
get_conversation_history ==
    /\ \E user_id \in Users \cup {BadId}, conversation_id \in ConvIds \cup {BadId} :
          LET raised == get_conversation_raises(convOwner, conversation_id, user_id)
          IN  conv_result' = ConvResult("get_conversation_history", user_id, conversation_id,
                                        raised,
                                        IF raised = "none" THEN conversation_id ELSE NoConv,
                                        IF raised = "none"
                                        THEN FirstN(msgStore[conversation_id], HistoryLimit)
                                        ELSE <<>>)
    /\ UNCHANGED <<parseVars, taskVars, ctx, todo, pair, pc, svcVars, storeVars, agentVars, exc, exc_text, agent_result,
                   http>>

\* ConversationService.save_messages: the commit succeeds, or fails and is
\* rolled back
save_messages ==
    /\ SavedCount < 2 * MaxSaves
    /\ \E user_id \in Users \cup {BadId}, conversation_id \in ConvIds \cup {BadId} :
          LET raised == get_conversation_raises(convOwner, conversation_id, user_id)
          IN  IF raised # "none"
              THEN /\ conv_result' = ConvResult("save_messages", user_id, conversation_id,
                                                raised, NoConv, <<>>)
                   /\ UNCHANGED <<msgStore, convUpdated>>
              ELSE \/ /\ conv_result' = ConvResult("save_messages", user_id, conversation_id,
                                                   "ConversationServiceError", NoConv, <<>>)
                      /\ UNCHANGED <<msgStore, convUpdated>>
                   \/ \E d1, d2, d3 \in ClockSteps, user_first \in BOOLEAN :
                        /\ msgStore' = [msgStore EXCEPT ![conversation_id] =
                                          SavedRows(@, convUpdated[conversation_id],
                                                    UserMessage, ReplyText, d1, d2, user_first)]
                        /\ convUpdated' = [convUpdated EXCEPT
                                             ![conversation_id] = @ + d1 + d2 + d3]
                        /\ conv_result' = ConvResult("save_messages", user_id,
                                                     conversation_id, "none", conversation_id,
                                                     <<>>)
    /\ UNCHANGED <<parseVars, taskVars, ctx, todo, pair, pc, svcVars, convOwner, agentVars, exc, exc_text, agent_result,
                   http>>

\* ConversationService.get_or_create_conversation
get_or_create_conversation ==
    /\ Cardinality({new \in ConvIds : convOwner[new] = NoUser}) > 1
    /\ \E user_id \in Users \cup {BadId}, conversation_id \in ConvIds \cup {BadId, NoConv} :
          LET raised == IF conversation_id = NoConv THEN "ConversationNotFoundError"
                        ELSE get_conversation_raises(convOwner, conversation_id, user_id)
          IN  IF raised = "none"
              THEN /\ conv_result' = ConvResult("get_or_create_conversation", user_id,
                                                conversation_id, "none", conversation_id, <<>>)
                   /\ UNCHANGED <<convOwner, convUpdated>>
              ELSE IF raised = "ValueError" \/ user_id = BadId
              THEN /\ conv_result' = ConvResult("get_or_create_conversation", user_id,
                                                conversation_id, "ValueError", NoConv, <<>>)
                   /\ UNCHANGED <<convOwner, convUpdated>>
              ELSE \E new \in ConvIds :
                     /\ convOwner[new] = NoUser
                     /\ new # conversation_id
                     /\ convOwner' = [convOwner EXCEPT ![new] = user_id]
                     /\ convUpdated' = [convUpdated EXCEPT ![new] = 0]
                     /\ conv_result' = ConvResult("get_or_create_conversation", user_id,
                                                  conversation_id, "none", new, <<>>)
    /\ UNCHANGED <<parseVars, taskVars, ctx, todo, pair, pc, svcVars, msgStore, agentVars, exc, exc_text, agent_result,
                   http>>

-----------------------------------------------------------------------------
(* Building the context: steps 2-4 of process_chat_request *)

MaxRows == 3

\* the roles a row of the messages table can carry (MessageService.add_message)
StoredRoles == {"user", "assistant", "tool"}

StoredRows == TokenSeqs(StoredRoles, MaxRows)

\* a wrong schema: no pattern on the role field
ConversationMessageRaisesNever(role) == FALSE

\* ConversationMessage(role=...): pattern="^(user|assistant)$" rejects the role
ConversationMessageRaises(role) == role \notin {"user", "assistant"}

\* step 2, get_conversation_history: the UUIDs are parsed, then every row loaded
\* is converted to a ConversationMessage
LoadHistory ==
    /\ ctx.stage = "idle"
    /\ \E user_id \in Users \cup {BadId}, rows \in StoredRows :
          ctx' = IF user_id = BadId
                 THEN [NoCtx EXCEPT !.stage = "failed", !.user_id = user_id, !.rows = rows,
                                    !.raised = "ValueError"]
                 ELSE IF \E i \in 1..Len(rows) : ConversationMessageRaises(rows[i])
                 THEN [NoCtx EXCEPT !.stage = "failed", !.user_id = user_id, !.rows = rows,
                                    !.raised = "ValidationError"]
                 ELSE [NoCtx EXCEPT !.stage = "history", !.user_id = user_id, !.rows = rows,
                                    !.history = rows]
    /\ UNCHANGED <<parseVars, taskVars, conv_result, todo, pair, pc, svcVars, storeVars, agentVars, exc, exc_text,
                   agent_result, http>>

\* step 3, ChatService._build_agent_context on the history of step 2
BuildContext ==
    /\ ctx.stage = "history"
    /\ ctx' = IF ctx.user_id = BadId
              THEN [ctx EXCEPT !.stage = "failed", !.raised = "ValueError"]
              ELSE [ctx EXCEPT !.stage = "context"]
    /\ UNCHANGED <<parseVars, taskVars, conv_result, todo, pair, pc, svcVars, storeVars, agentVars, exc, exc_text,
                   agent_result, http>>

\* ChatService._build_agent_context called with any user id and a list of
\* ConversationMessage objects
build_agent_context ==
    /\ ctx.stage = "idle"
    /\ \E user_id \in Users \cup {BadId}, history_ \in StoredRows :
          /\ \A i \in 1..Len(history_) : ~ConversationMessageRaises(history_[i])
          /\ ctx' = IF user_id = BadId
                    THEN [NoCtx EXCEPT !.stage = "failed", !.user_id = user_id,
                                       !.rows = history_, !.raised = "ValueError"]
                    ELSE [NoCtx EXCEPT !.stage = "context", !.user_id = user_id,
                                       !.rows = history_, !.history = history_]
    /\ UNCHANGED <<parseVars, taskVars, conv_result, todo, pair, pc, svcVars, storeVars, agentVars, exc, exc_text,
                   agent_result, http>>

\* step 4: process_message makes its first round-trip
FirstProviderCall ==
    /\ ctx.stage = "context"
    /\ ctx' = [ctx EXCEPT !.stage = "called", !.providerCalls = @ + 1]
    /\ UNCHANGED <<parseVars, taskVars, conv_result, todo, pair, pc, svcVars, storeVars, agentVars, exc, exc_text,
                   agent_result, http>>

-----------------------------------------------------------------------------
(* process_message of the two assistants, on a context built before *)

MaxParts == 2

\* a message of context.conversation_history
HistoryEntry(role, text) == [role |-> role, content |-> text]

\* the histories a context is built with
BuiltHistories ==
    {<<>>, <<HistoryEntry("user", <<"old">>), HistoryEntry("assistant", <<"old">>)>>}

\* the parts of a Gemini answer: text, or a function_call of that name
PartKinds == {"text", "list_tasks", "add_task", "bogus"}

PartSeqs == TokenSeqs(PartKinds, MaxParts)

\* the fixed texts of TodoAssistant.process_message
ProcessedText == "I've processed your request."
RephraseText == "I'm sorry, I couldn't generate a response. Could you try rephrasing your request?"

\* a wrong add_message: the context is left as it is
add_message_nothing(context_, role, text) == context_

\* AgentContext.add_message
add_message(context_, role, text) ==
    [context_ EXCEPT !.conversation_history = Append(@, HistoryEntry(role, text))]

\* process_message is called on a context just built
ProcessMessageCalled ==
    /\ todo.pc = "idle"
    /\ \E assistant \in {"TodoAssistant", "OpenRouterAssistant"}, user_id \in Users,
          conversation_history \in BuiltHistories :
          LET context_ == AgentContext(user_id, conversation_history, "c1")
          IN  todo' = [NoTodo EXCEPT !.assistant = assistant, !.pc = "first",
                                     !.context = context_, !.built = context_]
    /\ UNCHANGED <<parseVars, taskVars, conv_result, ctx, pair, pc, svcVars, storeVars, agentVars,
                   exc, exc_text, agent_result, http>>

\* TodoAssistant.process_message, lines 160-173: the history is converted, the
\* chat is started and the user message is sent; send_message raises or answers
TodoFirstSend ==
    /\ todo.assistant = "TodoAssistant"
    /\ todo.pc = "first"
    /\ \/ todo' = [todo EXCEPT !.pc = "raised", !.providerCalls = @ + 1]
       \/ \E parts \in PartSeqs, has_text \in BOOLEAN :
             todo' = [todo EXCEPT !.pc = "parts", !.providerCalls = @ + 1, !.parts = parts,
                                  !.cursor = 1, !.has_text = has_text]
    /\ UNCHANGED <<parseVars, taskVars, conv_result, ctx, pair, pc, svcVars, storeVars, agentVars,
                   exc, exc_text, agent_result, http>>

\* a wrong list of executed calls: the newest is put in front
ExecutedFront(executed, idx, tool_name, result) ==
    <<[idx |-> idx, tool_name |-> tool_name, result |-> result]>> \o executed

\* tool_calls_executed.append(tool_call); idx is the position of the part
Executed(executed, idx, tool_name, result) ==
    Append(executed, [idx |-> idx, tool_name |-> tool_name, result |-> result])

\* TodoAssistant.process_message, lines 178-204: one part of the first answer.
\* A function_call is executed (_execute_tool_call raises ValueError for an
\* unknown tool and records a failure of the client as an error result) and its
\* result is sent to the provider, whose answer replaces `response`
TodoPart ==
    /\ todo.assistant = "TodoAssistant"
    /\ todo.pc = "parts"
    /\ todo.cursor <= Len(todo.parts)
    /\ LET part == todo.parts[todo.cursor]
       IN  IF part = "text"
           THEN todo' = [todo EXCEPT !.cursor = @ + 1]
           ELSE IF part \notin TOOL_FUNCTIONS
           THEN todo' = [todo EXCEPT !.pc = "raised"]
           ELSE \E result \in {"returned", "error"} :
                  LET executed == Executed(todo.tool_calls_executed, todo.cursor, part, result)
                  IN  \/ todo' = [todo EXCEPT !.pc = "raised", !.providerCalls = @ + 1,
                                              !.tool_calls_executed = executed]
                      \/ \E has_text \in BOOLEAN :
                            todo' = [todo EXCEPT !.cursor = @ + 1, !.providerCalls = @ + 1,
                                                 !.tool_calls_executed = executed,
                                                 !.has_text = has_text]
    /\ UNCHANGED <<parseVars, taskVars, conv_result, ctx, pair, pc, svcVars, storeVars, agentVars,
                   exc, exc_text, agent_result, http>>

\* TodoAssistant.process_message, lines 206-233: the text of the last answer or
\* a fixed text; both messages are added to the context; the result is returned
TodoReturn ==
    /\ todo.assistant = "TodoAssistant"
    /\ todo.pc = "parts"
    /\ todo.cursor > Len(todo.parts)
    /\ LET agent_message == IF todo.has_text THEN "text"
                            ELSE IF todo.tool_calls_executed # <<>> THEN ProcessedText
                            ELSE RephraseText
       IN  todo' = [todo EXCEPT
                      !.pc = "returned",
                      !.message = agent_message,
                      !.context = add_message(add_message(@, "user", UserMessage),
                                              "assistant", agent_message)]
    /\ UNCHANGED <<parseVars, taskVars, conv_result, ctx, pair, pc, svcVars, storeVars, agentVars,
                   exc, exc_text, agent_result, http>>

\* OpenRouterAssistant.process_message as a whole, for what it does to the
\* context it is given (its steps are the actions of the chat request): it
\* copies conversation_history[-10:] into a list of its own, makes one or two
\* round-trips, and returns or raises
OpenRouterProcessMessage ==
    /\ todo.assistant = "OpenRouterAssistant"
    /\ todo.pc = "first"
    /\ \E n \in 1..2, outcome \in {"returned", "raised"} :
          todo' = [todo EXCEPT !.pc = outcome, !.providerCalls = n,
                               !.message = IF outcome = "returned" THEN "text" ELSE "none"]
    /\ UNCHANGED <<parseVars, taskVars, conv_result, ctx, pair, pc, svcVars, storeVars, agentVars,
                   exc, exc_text, agent_result, http>>

-----------------------------------------------------------------------------
(* Two chat requests of different callers, interleaved at their awaits and *)
(* database statements *)

\* request 1 is u1's, request 2 is u2's
PairUsers == <<"u1", "u2">>

\* what the provider answers to the first round-trip of a request: a text, a
\* call of list_tasks, a call of add_task, or nothing (the round-trip fails)
PairTurns == {"plain", "list_tasks", "add_task", "fails"}

\* the rows of c1, u1's conversation, before the two requests
InitialRows == <<Row("user", <<"w">>, 1), Row("assistant", <<"w">>, 2)>>

\* the tasks table before the two requests: one task of each user
InitialTasks ==
    [id \in TaskIds |->
        IF id <= 2
        THEN [exists |-> TRUE, created_by |-> PairUsers[id], status |-> "TO_DO", title |-> "a"]
        ELSE NoTask]

\* the reply of a request, given the provider's answers
PairReply(turn) == IF turn = "plain" THEN <<"w">> ELSE <<"s">>

\* send_chat_message is entered for caller r
PairSendChatMessage(r) ==
    /\ pair[r].pc = "idle"
    /\ \E conversation_id \in {NoConv, "c1"}, turn \in PairTurns, committed \in BOOLEAN :
          pair' = [pair EXCEPT ![r] = [NoPairRequest EXCEPT
                     !.pc = "conv", !.user_id = PairUsers[r],
                     !.conversation_id = conversation_id, !.turn = turn,
                     !.committed = committed]]
    /\ UNCHANGED <<parseVars, taskVars, conv_result, ctx, todo, pc, svcVars, storeVars,
                   agentVars, exc, exc_text, agent_result, http>>

\* step 1 of process_chat_request for caller r
PairGetOrCreateConversation(r) ==
    /\ pair[r].pc = "conv"
    /\ IF /\ pair[r].conversation_id # NoConv
          /\ get_conversation_raises(convOwner, pair[r].conversation_id,
                                     pair[r].user_id) = "none"
       THEN /\ pair' = [pair EXCEPT ![r].pc = "history",
                                    ![r].conversation = pair[r].conversation_id]
            /\ UNCHANGED <<convOwner, convUpdated>>
       ELSE \E new \in ConvIds :
              /\ convOwner[new] = NoUser
              /\ convOwner' = [convOwner EXCEPT ![new] = pair[r].user_id]
              /\ convUpdated' = [convUpdated EXCEPT ![new] = 0]
              /\ pair' = [pair EXCEPT ![r].pc = "history", ![r].conversation = new]
    /\ UNCHANGED <<parseVars, taskVars, conv_result, ctx, todo, pc, svcVars, msgStore,
                   agentVars, exc, exc_text, agent_result, http>>

\* steps 2 and 3 of process_chat_request for caller r
PairGetConversationHistory(r) ==
    /\ pair[r].pc = "history"
    /\ pair' = [pair EXCEPT
                  ![r].pc = "first",
                  ![r].history = LET rows == FirstN(msgStore[pair[r].conversation],
                                                    HistoryLimit)
                                 IN  [i \in 1..Len(rows) |-> ConversationMessage(rows[i])]]
    /\ UNCHANGED <<parseVars, taskVars, conv_result, ctx, todo, pc, svcVars, storeVars,
                   agentVars, exc, exc_text, agent_result, http>>

\* process_message for caller r: the first round-trip
PairFirstTurn(r) ==
    /\ pair[r].pc = "first"
    /\ pair' = [pair EXCEPT ![r] =
                  CASE pair[r].turn = "fails" -> [@ EXCEPT !.pc = "done", !.status = 500]
                    [] pair[r].turn = "plain" ->
                         [@ EXCEPT !.pc = "save", !.message = PairReply("plain")]
                    [] OTHER -> [@ EXCEPT !.pc = "tool"]]
    /\ UNCHANGED <<parseVars, taskVars, conv_result, ctx, todo, pc, svcVars, storeVars,
                   agentVars, exc, exc_text, agent_result, http>>

\* process_message for caller r: the executor of tool_executors.py is awaited
PairTool(r) ==
    /\ pair[r].pc = "tool"
    /\ pair' = [pair EXCEPT
                  ![r].pc = "synthesis",
                  ![r].tool_calls =
                     IF pair[r].turn = "list_tasks"
                     THEN <<[tool_name |-> "list_tasks", error |-> "none",
                             tasks |-> get_user_tasks(tasks, pair[r].user_id)]>>
                     ELSE <<[tool_name |-> "add_task",
                             error |-> "has no attribute 'create_task_simple'",
                             tasks |-> {}]>>]
    /\ UNCHANGED <<parseVars, taskVars, conv_result, ctx, todo, pc, svcVars, storeVars,
                   agentVars, exc, exc_text, agent_result, http>>

\* process_message for caller r: the second round-trip and the return
PairSynthesis(r) ==
    /\ pair[r].pc = "synthesis"
    /\ pair' = [pair EXCEPT ![r].pc = "save", ![r].message = PairReply(pair[r].turn)]
    /\ UNCHANGED <<parseVars, taskVars, conv_result, ctx, todo, pc, svcVars, storeVars,
                   agentVars, exc, exc_text, agent_result, http>>

\* step 5 of process_chat_request for caller r, and the answer
PairSaveMessages(r) ==
    /\ pair[r].pc = "save"
    /\ IF pair[r].committed /\ get_conversation_raises(convOwner, pair[r].conversation,
                                                       pair[r].user_id) = "none"
       THEN /\ msgStore' = [msgStore EXCEPT ![pair[r].conversation] =
                              SavedRows(@, convUpdated[pair[r].conversation], UserMessage,
                                        pair[r].message, 1, 1, TRUE)]
            /\ convUpdated' = [convUpdated EXCEPT ![pair[r].conversation] = @ + 3]
       ELSE UNCHANGED <<msgStore, convUpdated>>
    /\ pair' = [pair EXCEPT ![r].pc = "done", ![r].status = 200]
    /\ UNCHANGED <<parseVars, taskVars, conv_result, ctx, todo, pc, svcVars, convOwner,
                   agentVars, exc, exc_text, agent_result, http>>

-----------------------------------------------------------------------------
(* Specification of the chat request *)

\* the messages stored before the request: none, or one earlier exchange in
\* the conversation of u1
InitialStores ==
    {[c \in ConvIds |-> IF c = "c1" THEN old ELSE <<>>] :
        old \in {<<>>, <<Row("user", <<"w">>, 1), Row("assistant", <<"w">>, 2)>>}}

Init ==
    /\ ParseIdle
    /\ TasksIdle
    /\ CycleFields
    /\ SideIdle
    /\ msgStore \in InitialStores

Next ==
    \/ SendChatMessage
    \/ GetOrCreateConversation
    \/ DatabaseFails
    \/ GetConversationHistory
    \/ BuildAgentContext
    \/ BuildMessages
    \/ FirstTurn
    \/ Branch
    \/ DispatchStructured
    \/ StructuredToolCompletes
    \/ StructuredFeedback
    \/ SynthesisStructured
    \/ DispatchXml
    \/ XmlToolCompletes
    \/ XmlFeedback
    \/ SynthesisXml
    \/ Cleanup
    \/ AgentExcept
    \/ AgentErrorToChatServiceError
    \/ SaveMessages
    \/ BuildResponse
    \/ UnexpectedToChatServiceError
    \/ ApiReturn
    \/ ApiExcept

Spec == Init /\ [][Next]_vars

-----------------------------------------------------------------------------
(* Specification of the parser alone *)

\* one add_task block whose only parameter has the value `value`
ValueBlock(value) == <<"O", "Fb", "P">> \o value \o <<"E", "C">>

ValueTexts == {ValueBlock(value) : value \in TokenSeqs(ValueAlphabet, MaxValueLen)}

ParseInputs == TokenSeqs(ParseAlphabet, MaxTextLen) \cup Contents \cup ValueTexts

ParseInit ==
    /\ ptext \in ParseInputs
    /\ pcalls = <<>>
    /\ pdone = FALSE
    /\ TasksIdle
    /\ SideIdle
    /\ CycleIdle

ParseCall ==
    /\ ~pdone
    /\ pcalls' = parse_xml_tool_calls(ptext)
    /\ pdone' = TRUE
    /\ UNCHANGED <<ptext, pc, svcVars, storeVars, taskVars, sideVars, agentVars, exc, exc_text,
                   agent_result, http>>

ParseNext == ParseCall

SpecParse == ParseInit /\ [][ParseNext]_vars

-----------------------------------------------------------------------------
(* Specification of the task tools alone *)

TasksInit == ParseIdle /\ CycleIdle /\ SideIdle /\ TasksIdle

TasksNext ==
    \/ api_mcp_add_task
    \/ api_mcp_list_tasks
    \/ api_mcp_complete_task
    \/ api_mcp_delete_task
    \/ api_mcp_update_task
    \/ executors_list_tasks
    \/ executors_add_task
    \/ executors_complete_task
    \/ executors_delete_task
    \/ executors_update_task
    \/ mcp_tools_complete_task

SpecTasks == TasksInit /\ [][TasksNext]_vars

-----------------------------------------------------------------------------
(* Specification of ConversationService alone *)

\* c1 belongs to u1 and is empty, or holds one row more than a history takes
ConvInit ==
    /\ ParseIdle
    /\ TasksIdle
    /\ SideIdle
    /\ CycleFields
    /\ \E n \in {0, HistoryLimit + 1} :
          msgStore = [c \in ConvIds |-> IF c = "c1" THEN OldRows(n) ELSE <<>>]

ConvNext ==
    \/ create_conversation
    \/ get_conversation
    \/ get_conversation_history
    \/ save_messages
    \/ get_or_create_conversation

SpecConv == ConvInit /\ [][ConvNext]_vars

-----------------------------------------------------------------------------
(* Specification of the context building alone *)

ContextInit == ParseIdle /\ TasksIdle /\ SideIdle /\ CycleIdle

ContextNext ==
    \/ LoadHistory
    \/ BuildContext
    \/ build_agent_context
    \/ FirstProviderCall

SpecContext == ContextInit /\ [][ContextNext]_vars

-----------------------------------------------------------------------------
(* Specification of process_message on a built context *)

TodoInit == ParseIdle /\ TasksIdle /\ SideIdle /\ CycleIdle

TodoNext ==
    \/ ProcessMessageCalled
    \/ TodoFirstSend
    \/ TodoPart
    \/ TodoReturn
    \/ OpenRouterProcessMessage

SpecTodo == TodoInit /\ [][TodoNext]_vars

-----------------------------------------------------------------------------
(* Specification of two interleaved chat requests *)

PairInit ==
    /\ ParseIdle
    /\ SideIdle
    /\ CycleFields
    /\ msgStore = [c \in ConvIds |-> IF c = "c1" THEN InitialRows ELSE <<>>]
    /\ tasks = InitialTasks
    /\ tool_result = NoToolResult

PairNext ==
    \E r \in 1..2 :
       \/ PairSendChatMessage(r)
       \/ PairGetOrCreateConversation(r)
       \/ PairGetConversationHistory(r)
       \/ PairFirstTurn(r)
       \/ PairTool(r)
       \/ PairSynthesis(r)
       \/ PairSaveMessages(r)

SpecPair == PairInit /\ [][PairNext]_vars

-----------------------------------------------------------------------------
(* Properties of the chat cycle *)

\* positions of the calls of the turn whose tool name is registered
Registered == {i \in 1..Len(calls) : calls[i].name \in TOOL_FUNCTIONS}

\* the argument payloads of a structured turn all deserialize
PayloadsDecode ==
    mode = "structured" => \A i \in 1..Len(calls) : json_loads(calls[i].arguments).ok

\* the stages of a request in the order in which control passes through them
StageOf(p) ==
    CASE p = "idle" -> 0
      [] p = "svc_conv" -> 1
      [] p = "svc_history" -> 2
      [] p = "svc_context" -> 3
      [] p = "agent_build" -> 4
      [] p = "agent_first" -> 5
      [] p = "agent_branch" -> 6
      [] p \in {"dispatch_s", "dispatch_x"} -> 7
      [] p \in {"synth_s", "synth_x"} -> 8
      [] p = "cleanup" -> 9
      [] p = "agent_except" -> 10
      [] p = "svc_agent_error" -> 11
      [] p = "svc_save" -> 12
      [] p = "svc_response" -> 13
      [] p = "svc_except" -> 14
      [] p \in {"api_return", "api_except"} -> 15
      [] p = "done" -> 16
      [] OTHER -> 17

\* a bound on the steps a request still has to take: the stages left, and
\* inside a dispatch loop the calls left
Remaining ==
    (17 - StageOf(pc)) * 100 + (50 - (2 * cursor + IF running # 0 THEN 1 ELSE 0))

\* C1: every chat request that starts ends with an answer: each step brings the
\* request nearer to its end, no stage before the end is stuck, and at the end
\* the caller has either the reply or, when a stage raised, the fixed text
\* under the internal-error status; no exception reaches the caller.
C1_AlwaysAnswers ==
    /\ [](pc = "done" =>
            \/ http.status = 200 /\ exc = "none"
            \/ http.status = 500 /\ http.detail = SorryText /\ exc # "none")
    /\ [](pc \notin {"idle", "done"} => ENABLED <<Next>>_vars)
    /\ [][Remaining' < Remaining]_vars

\* a request whose first provider call timed out has been answered
C1_Witness ==
    /\ pc = "done"
    /\ first.status = "timeout"
    /\ exc = "ChatServiceError"
    /\ http.status = 500
    /\ http.detail = SorryText

\* C2: a call whose tool name is not registered raises nothing, gets a result
\* carrying a not-found failure, the remaining calls are still dispatched and
\* the cycle still returns a reply.
C2_UnknownToolGetsNotFound ==
    /\ \A i \in 1..Len(calls) :
          (mode \in {"structured", "xml"} /\ calls[i].name \notin TOOL_FUNCTIONS /\ i < cursor)
            => \E j \in 1..Len(tool_calls_data) :
                  tool_calls_data[j].idx = i /\ tool_calls_data[j].result = "not_found"
    /\ (/\ pc = "done"
        /\ mode \in {"structured", "xml"}
        /\ PayloadsDecode
        /\ second.status \in {"none", "error"}
        /\ \E i \in 1..Len(calls) : calls[i].name \notin TOOL_FUNCTIONS)
          => http.status = 200

\* C3: when the handler of a registered tool raises, the call has a failure
\* result at its position, every later call is still dispatched, the synthesis
\* turn is attempted and the reply returned is not empty.
C3_HandlerFailureContained ==
    (/\ pc = "done"
     /\ PayloadsDecode
     /\ \A j \in 1..Len(tool_calls_data) : tool_calls_data[j].parameters.isdict
     /\ \E j \in 1..Len(tool_calls_data) : tool_calls_data[j].result = "raised")
      => /\ \A i \in Registered : \E n \in 1..Len(invoked) : invoked[n] = i
         /\ \A j \in 1..Len(tool_calls_data) :
               ToolRaises(tool_calls_data[j].tool_name, tool_calls_data[j].parameters)
                 => tool_calls_data[j].result = "raised"
         /\ providerCalls = 2
         /\ http.status = 200 => http.message # <<>>

\* the second round-trip was made and failed
SynthesisFailed ==
    \/ second.status \in {"timeout", "error", "malformed"}
    \/ second.status = "ok" /\ second.content.kind = "null"
    \/ second.status = "ok" /\ Strip(second.content.text) = <<>>

\* C4: when a tool was executed and the synthesis round-trip fails in any way,
\* the cycle does not raise and returns the fixed fallback text with exactly
\* the executed tools, in order.
C4_SynthesisFailureFallsBack ==
    (/\ pc = "done"
     /\ tool_calls_data # <<>>
     /\ \A j \in 1..Len(tool_calls_data) : tool_calls_data[j].parameters.isdict
     /\ SynthesisFailed)
      => /\ http.status = 200
         /\ http.message \in {CompletedText, DoneText}
         /\ http.tool_calls = tool_calls_data

\* C5: when the first provider round-trip fails, the cycle ends with an error
\* the caller sees, no tool handler has been invoked and no second provider
\* call is made.
C5_FirstTurnFailureAborts ==
    first.status \in {"timeout", "error", "malformed"}
      => /\ invoked = <<>>
         /\ tool_calls_data = <<>>
         /\ providerCalls = 1
         /\ second.status = "none"
         /\ ~agent_result.returned
         /\ pc \in {"agent_except", "svc_agent_error", "api_except", "done"}
         /\ pc = "done" => http.status = 500 /\ http.detail = SorryText

\* a request whose first provider call answered a status other than 200 has ended
C5_Witness ==
    /\ pc = "done"
    /\ first.status = "error"
    /\ http.status = 500

\* C6: in every state the results are no more than the calls of the turn and
\* stand in the order in which their calls were emitted.
C6_ResultsFollowCalls ==
    /\ Len(tool_calls_data) <= Len(calls)
    /\ \A j \in 1..Len(tool_calls_data) :
          /\ tool_calls_data[j].idx \in 1..Len(calls)
          /\ tool_calls_data[j].tool_name = calls[tool_calls_data[j].idx].name
    /\ \A i, j \in 1..Len(tool_calls_data) :
          i < j => tool_calls_data[i].idx < tool_calls_data[j].idx

\* a failure followed by a success, both recorded
C6_Witness ==
    /\ Len(tool_calls_data) = 2
    /\ tool_calls_data[1].result = "raised"
    /\ tool_calls_data[2].result = "returned"
    /\ pc = "done"

\* C7: no reply returned to the user contains a <tool_call> or </tool_call> marker.
C7_NoMarkerInReply ==
    (pc = "done" /\ http.status = 200) => ~HasMarker(http.message)

\* the first turn is a text without call requests and without <tool_call>
PlainFirstTurn ==
    /\ first.status = "ok"
    /\ first.tool_calls = <<>>
    /\ first.content.kind = "text"
    /\ ~HasOpenTag(first.content.text)

\* C8 as stated: a first turn without call requests and without <tool_call>
\* marker makes one round-trip, invokes no handler and is returned unchanged
\* with an empty tool-result list.
C8_PlainTextUnchanged ==
    PlainFirstTurn =>
      /\ providerCalls = 1
      /\ invoked = <<>>
      /\ pc # "agent_except" /\ exc # "AgentProcessingError"
      /\ agent_result.returned =>
           /\ agent_result.message = first.content.text
           /\ agent_result.tool_calls = <<>>
      /\ (pc = "done" /\ http.status = 200) =>
           /\ http.message = first.content.text
           /\ http.tool_calls = <<>>

\* C8 as amended: the text is returned with leading and trailing white space
\* removed; an empty text gives "I'm here to help!" and a blank one "Done!".
C8_PlainTextTrimmed ==
    PlainFirstTurn =>
      /\ providerCalls = 1
      /\ invoked = <<>>
      /\ pc # "agent_except" /\ exc # "AgentProcessingError"
      /\ LET reply == IF first.content.text = <<>> THEN HelpText
                      ELSE IF Strip(first.content.text) = <<>> THEN DoneText
                      ELSE Strip(first.content.text)
         IN  /\ agent_result.returned =>
                  /\ agent_result.message = reply
                  /\ agent_result.tool_calls = <<>>
             /\ (pc = "done" /\ http.status = 200) =>
                  /\ http.message = reply
                  /\ http.tool_calls = <<>>

\* a text with white space before it has been returned trimmed
C8_Witness ==
    /\ pc = "done"
    /\ PlainFirstTurn
    /\ first.content.text = <<"s", "w">>
    /\ http.message = <<"w">>

-----------------------------------------------------------------------------
(* Properties of the task tools *)

\* the last tool run named a task that another user created
ForeignTarget ==
    /\ tool_result.tool \in {"complete_task", "update_task", "delete_task"}
    /\ tool_result.owner \notin {NoUser, tool_result.user_id}

\* C10: a task tool run for user A never returns or changes a task created by
\* user B: list_tasks returns only A's tasks, and complete_task, update_task and
\* delete_task naming B's task return a not-found error and leave it unchanged.
C10_ForeignTaskNotFound ==
    /\ [](tool_result.tool = "list_tasks" =>
            \A id \in tool_result.tasks : tasks[id].created_by = tool_result.user_id)
    /\ [](ForeignTarget => tool_result.error = "Task not found")
    /\ [][\A id \in TaskIds :
            (tasks[id].exists /\ tasks[id].created_by # tool_result'.user_id)
              => tasks'[id] = tasks[id]]_taskVars

-----------------------------------------------------------------------------
(* Properties of parse_xml_tool_calls *)

\* position of the last </tool_call> before position c, 0 if none
PrevClose(text, c) ==
    LET before == {j \in 1..(c - 1) : text[j] = "C"}
    IN  IF before = {} THEN 0 ELSE CHOOSE j \in before : \A i \in before : i <= j

\* the <tool_call> tags that a </tool_call> at position c can close
OpenersOf(text, c) == {o \in (PrevClose(text, c) + 1)..(c - 1) : text[o] = "O"}

\* the block closed at c starts at the first of them
OpenOf(text, c) == CHOOSE o \in OpenersOf(text, c) : \A i \in OpenersOf(text, c) : o <= i

\* positions that close a block holding a <function=NAME> tag
NamedBlocks(text) ==
    {c \in 1..Len(text) :
        /\ text[c] = "C"
        /\ OpenersOf(text, c) # {}
        /\ \E f \in (OpenOf(text, c) + 1)..(c - 1) : text[f] \in FunctionTags}

\* C9: parse_xml_tool_calls returns one call per <tool_call> block that has a
\* <function=NAME> tag, in the order of the blocks, each with the name of its
\* block and the parameters of its block; a block without a function tag gives
\* no call and changes nothing for the other blocks.
C9_OneCallPerNamedBlock ==
    pdone =>
      LET named == NamedBlocks(ptext)
      IN  /\ Len(pcalls) = Cardinality(named)
          /\ \A c \in named :
               LET n == Cardinality({d \in named : d <= c})
                   o == OpenOf(ptext, c)
                   fs == {f \in (o + 1)..(c - 1) : ptext[f] \in FunctionTags}
                   f == CHOOSE x \in fs : \A y \in fs : x <= y
                   ps == {q \in (o + 1)..(c - 1) : ptext[q] = "P"}
                   closed == {q \in ps : \E e \in (q + 1)..(c - 1) : ptext[e] = "E"}
               IN  /\ pcalls[n].name = FunctionName(ptext[f])
                   /\ DOMAIN pcalls[n].arguments = (IF closed = {} THEN {} ELSE {"title"})
                   /\ (Cardinality(ps) = 1 /\ closed # {}) =>
                        LET q == CHOOSE x \in ps : TRUE
                            es == {e \in (q + 1)..(c - 1) : ptext[e] = "E"}
                            e == CHOOSE x \in es : \A y \in es : x <= y
                            value == Strip(SubSeq(ptext, q + 1, e - 1))
                        IN  (value = <<>> \/ value[1] \notin {"{", "["}) =>
                              pcalls[n].arguments["title"] = value

\* two well-formed blocks, the second without parameters, have been parsed
C9_Witness ==
    /\ pdone
    /\ ptext = <<"O", "Fb", "P", "s", "w", "E", "C", "O", "Fa", "C">>
    /\ Len(pcalls) = 2
    /\ pcalls[1].name = "add_task"
    /\ pcalls[1].arguments["title"] = <<"w">>
    /\ pcalls[2].name = "list_tasks"
    /\ DOMAIN pcalls[2].arguments = {}


\* C16: in a structured turn of registered tools, a call request whose argument
\* payload does not deserialize raises nothing: up to the synthesis round-trip
\* no exception is propagating, and every call request of the turn, that one
\* included, has been dispatched when the synthesis turn is reached.
C16_UndecodablePayloadKept ==
    (/\ mode = "structured"
     /\ Registered = 1..Len(calls)
     /\ ~PayloadsDecode
     /\ second = NoSecond)
      => /\ exc = "none"
         /\ pc \in {"dispatch_s", "synth_s"}
         /\ pc = "synth_s" => invoked = [i \in 1..Len(calls) |-> i]

\* C17: when the first turn carries <tool_call> markers and no tool is executed,
\* the request succeeds and the reply is one of the fixed default texts, not
\* text left over from the model's turn.
C17_NoToolRunGivesDefault ==
    (/\ pc = "done"
     /\ mode \in {"xml", "xml_none"}
     /\ tool_calls_data = <<>>)
      => /\ http.status = 200
         /\ http.message \in {WorkingText, DoneText}

\* C18: the failure text a tool executor of the chat cycle puts into its result
\* is the sanitized one: it holds no connection string, file path or stack
\* trace of the exception that was raised.
C18_ToolErrorsSanitized ==
    tool_result.layer = "executors"
      => /\ tool_result.error \notin SensitiveTexts
         /\ tool_result.error = safe_error_message(tool_result.error)

-----------------------------------------------------------------------------
(* Properties of ConversationService *)

\* the ids the last call was made with are well formed
ValidIds ==
    /\ conv_result.user_id \in Users
    /\ conv_result.conversation_id \in ConvIds

\* the conversation the last call was asked for exists and is the caller's
OwnedByCaller == ValidIds /\ convOwner[conv_result.conversation_id] = conv_result.user_id

\* the rows of c are touched by this step
RowsChange(c) == msgStore'[c] # msgStore[c] \/ convUpdated'[c] # convUpdated[c]

\* what the last call did agrees with the ownership of the conversation it named
C11_State ==
    /\ (conv_result.op \in {"get_conversation", "get_conversation_history", "save_messages"}
        /\ ValidIds)
       => /\ (conv_result.raised = "ConversationNotFoundError") <=> ~OwnedByCaller
          /\ conv_result.raised = "none" => conv_result.conversation = conv_result.conversation_id
          /\ conv_result.raised # "none" => conv_result.messages = <<>>
    /\ (conv_result.op = "get_conversation_history" /\ conv_result.raised = "none")
       => /\ OwnedByCaller
          /\ \A i \in 1..Len(conv_result.messages) :
                conv_result.messages[i] = msgStore[conv_result.conversation_id][i]
    /\ (conv_result.op = "get_or_create_conversation" /\ conv_result.raised = "none")
       => /\ convOwner[conv_result.conversation] = conv_result.user_id
          /\ (conv_result.conversation = conv_result.conversation_id) <=> OwnedByCaller
          /\ ~OwnedByCaller => /\ msgStore[conv_result.conversation] = <<>>
                               /\ conv_result.conversation # conv_result.conversation_id

\* a step changes the rows of a conversation only for its owner, and never the
\* owner of an existing conversation
C11_Step ==
    /\ \A c \in ConvIds :
          RowsChange(c) /\ convOwner[c] # NoUser
             => /\ conv_result'.op = "save_messages"
                /\ conv_result'.user_id = convOwner[c]
                /\ conv_result'.conversation_id = c
    /\ \A c \in ConvIds : convOwner[c] # NoUser => convOwner'[c] = convOwner[c]

PriorTurns == LastN(conv_result.messages, HistoryWindow)

\* C13: the history loaded for a request is made of the most recent HistoryLimit
\* rows of the conversation in chronological order, so the newest stored row is
\* in the history and in the prior-turn list given to the model.
C13_HistoryIsMostRecent ==
    (conv_result.op = "get_conversation_history" /\ conv_result.raised = "none")
       => LET rows == msgStore[conv_result.conversation_id]
          IN  /\ conv_result.messages = LastN(rows, HistoryLimit)
              /\ Len(rows) > 0 => PriorTurns[Len(PriorTurns)] = rows[Len(rows)]

\* ConversationNotFoundError is a subclass of ConversationServiceError
IsConversationServiceError(raised) ==
    raised \in {"ConversationServiceError", "ConversationNotFoundError"}

\* what a save_messages call with well-formed ids must do to the store
C19_Step ==
    (conv_result'.op = "save_messages" /\ conv_result'.user_id \in Users
     /\ conv_result'.conversation_id \in ConvIds)
       => LET c == conv_result'.conversation_id
              n == Len(msgStore[c])
          IN  IF conv_result'.raised = "none"
              THEN /\ msgStore' = [msgStore EXCEPT ![c] =
                                     @ \o <<msgStore'[c][n + 1], msgStore'[c][n + 2]>>]
                   /\ Len(msgStore'[c]) = n + 2
                   /\ msgStore'[c][n + 1].role = "user"
                   /\ msgStore'[c][n + 1].text = UserMessage
                   /\ msgStore'[c][n + 2].role = "assistant"
                   /\ msgStore'[c][n + 2].text = ReplyText
                   /\ convUpdated'[c] > convUpdated[c]
              ELSE /\ IsConversationServiceError(conv_result'.raised)
                   /\ UNCHANGED storeVars

\* C19: save_messages is atomic: when it returns, exactly two rows have been
\* added to the conversation, the user message before the assistant message in
\* the order the history reads them, and updated_at has advanced; when it fails,
\* nothing is persisted and ConversationServiceError is raised.
C19_SaveIsAtomic == [][C19_Step]_vars

-----------------------------------------------------------------------------
(* Properties of the context building *)

\* the input of the building is malformed
MalformedInput ==
    \/ ctx.user_id = BadId
    \/ \E i \in 1..Len(ctx.rows) : ctx.rows[i] \notin {"user", "assistant"}

-----------------------------------------------------------------------------
(* Properties of process_message on a built context *)

\* process_message has returned or raised
TodoOver == todo.pc \in {"returned", "raised"}

\* C14 as stated: after process_message has returned or raised, the context is
\* what it was when it was built.
C14_ContextNeverModified == TodoOver => todo.context = todo.built

\* C14 as amended: process_message never changes the ids, the tool catalog or
\* the system text of the context, nor its history while it runs or when it
\* raises; OpenRouterAssistant returns with the history unchanged, and
\* TodoAssistant returns with exactly the user message and its reply appended.
C14_ContextChangedOnlyByTodoReturn ==
    /\ todo.context.user_id = todo.built.user_id
    /\ todo.context.conversation_id = todo.built.conversation_id
    /\ todo.context.available_tools = todo.built.available_tools
    /\ todo.context.system_instructions = todo.built.system_instructions
    /\ (todo.pc # "returned" \/ todo.assistant = "OpenRouterAssistant")
         => todo.context = todo.built
    /\ (todo.pc = "returned" /\ todo.assistant = "TodoAssistant")
         => todo.context.conversation_history =
               todo.built.conversation_history
                 \o <<HistoryEntry("user", UserMessage),
                      HistoryEntry("assistant", todo.message)>>

\* TodoAssistant has returned after a tool call, and the context is two messages longer
C14_Witness ==
    /\ todo.assistant = "TodoAssistant"
    /\ todo.pc = "returned"
    /\ todo.tool_calls_executed # <<>>
    /\ Len(todo.built.conversation_history) = 2
    /\ Len(todo.context.conversation_history) = 4

\* C20: a cycle makes at most two provider round-trips and dispatches each call
\* of the turn at most once, whichever assistant runs it, so that it ends with a
\* reply or an error after a bounded number of provider calls.
C20_AtMostTwoRoundTrips ==
    /\ todo.providerCalls <= 2
    /\ \A i, j \in 1..Len(todo.tool_calls_executed) :
          i # j => todo.tool_calls_executed[i].idx # todo.tool_calls_executed[j].idx
    /\ todo.cursor <= Len(todo.parts) + 1

-----------------------------------------------------------------------------
(* Properties of two interleaved chat requests *)

\* the stages of a request in order
PairStage(p) ==
    CASE p = "idle" -> 0 [] p = "conv" -> 1 [] p = "history" -> 2 [] p = "first" -> 3
      [] p = "tool" -> 4 [] p = "synthesis" -> 5 [] p = "save" -> 6 [] OTHER -> 7

\* the request names a conversation that was its caller's before the two requests
AloneOwned(q) == q.conversation_id = "c1" /\ q.user_id = "u1"

\* what the request loads as history when it runs alone
AloneHistory(q) ==
    IF AloneOwned(q)
    THEN [i \in 1..Len(InitialRows) |-> Entry(InitialRows[i].role, InitialRows[i].text)]
    ELSE <<>>

\* the tool results of the request when it runs alone
AloneToolCalls(q) ==
    CASE q.turn = "list_tasks" ->
           <<[tool_name |-> "list_tasks", error |-> "none",
              tasks |-> {id \in TaskIds : InitialTasks[id].created_by = q.user_id}]>>
      [] q.turn = "add_task" ->
           <<[tool_name |-> "add_task", error |-> "has no attribute 'create_task_simple'",
              tasks |-> {}]>>
      [] OTHER -> <<>>

\* the roles and texts of the rows of the request's conversation after it has
\* run alone
AloneRows(q) ==
    (IF AloneOwned(q) THEN [i \in 1..Len(InitialRows) |->
                              <<InitialRows[i].role, InitialRows[i].text>>]
     ELSE <<>>)
    \o (IF q.committed /\ q.turn # "fails"
        THEN <<<<"user", UserMessage>>, <<"assistant", PairReply(q.turn)>>>>
        ELSE <<>>)

RolesAndTexts(rows) == [i \in 1..Len(rows) |-> <<rows[i].role, rows[i].text>>]

\* C12: whatever the interleaving of the two requests, each works on a
\* conversation of its own caller that the other does not use, loads the history,
\* gets the tool results, gives the reply and leaves the rows and tasks that it
\* would when run alone with the same provider answers.
C12_InterleavedAsAlone ==
    /\ tasks = InitialTasks
    /\ \A r \in 1..2 :
          LET q == pair[r]
              other == pair[3 - r]
          IN  /\ PairStage(q.pc) >= 2 =>
                   /\ convOwner[q.conversation] = q.user_id
                   /\ AloneOwned(q) <=> q.conversation = q.conversation_id
                   /\ other.conversation # q.conversation
              /\ PairStage(q.pc) >= 3 => q.history = AloneHistory(q)
              /\ PairStage(q.pc) >= 5 => q.tool_calls = AloneToolCalls(q)
              /\ q.pc = "done" =>
                   /\ q.tool_calls = AloneToolCalls(q)
                   /\ q.status = 200 => q.message = PairReply(q.turn)
                   /\ RolesAndTexts(msgStore[q.conversation]) = AloneRows(q)
    /\ \A c \in ConvIds :
          (\A r \in 1..2 : pair[r].conversation # c \/ pair[r].pc # "done")
             => msgStore[c] = (IF c = "c1" THEN InitialRows ELSE <<>>)

\* u2 named u1's conversation while u1 was writing to it; both have ended, each
\* with its own two rows saved
C12_Witness ==
    /\ pair[1].pc = "done" /\ pair[2].pc = "done"
    /\ pair[1].conversation_id = "c1" /\ pair[2].conversation_id = "c1"
    /\ pair[1].committed /\ pair[2].committed
    /\ pair[1].turn = "list_tasks" /\ pair[2].turn = "list_tasks"
    /\ Len(msgStore["c1"]) = 4
    /\ Len(msgStore[pair[2].conversation]) = 2
    /\ pair[2].tool_calls[1].tasks = {2}

-----------------------------------------------------------------------------
(* Parameter values *)

\* the JSON texts without blanks, nested at most d lists deep
RECURSIVE JsonDocs(_)
JsonDocs(d) ==
    IF d = 0
    THEN {<<"{", "}">>, <<"[", "]">>} \cup {[i \in 1..n |-> "1"] : n \in 1..(MaxValueLen + 1)}
    ELSE JsonDocs(d - 1) \cup {<<"[">> \o doc \o <<"]">> : doc \in JsonDocs(d - 1)}

\* `text` is a JSON text: one of the texts above with blanks between its
\* symbols, none of them inside a number
IsJsonText(text) ==
    /\ SelectSeq(text, NotSpace) \in JsonDocs(Len(text))
    /\ ~ \E i, k \in 1..Len(text) :
            /\ i + 1 < k
            /\ text[i] = "1"
            /\ text[k] = "1"
            /\ \A j \in (i + 1)..(k - 1) : text[j] = "s"

\* the parsed text is one add_task block with one parameter whose value is
\* made of value characters only
IsValueText(text) ==
    /\ Len(text) >= 5
    /\ SubSeq(text, 1, 3) = <<"O", "Fb", "P">>
    /\ SubSeq(text, Len(text) - 1, Len(text)) = <<"E", "C">>
    /\ \A i \in 4..(Len(text) - 2) : text[i] \in ValueAlphabet

\* C21: in an inline call block, a parameter value that starts with { or [ and
\* is valid JSON is extracted as the equivalent structured value; every other
\* value, one that starts with { or [ without being valid JSON included, is
\* extracted as its text without leading and trailing blanks; the call is
\* returned whatever the value is.
C21_ValueExtracted ==
    (pdone /\ IsValueText(ptext)) =>
      LET value == Strip(SubSeq(ptext, 4, Len(ptext) - 2))
      IN  /\ Len(pcalls) = 1
          /\ pcalls[1].name = "add_task"
          /\ DOMAIN pcalls[1].arguments = {"title"}
          /\ pcalls[1].arguments["title"] =
                IF value # <<>> /\ value[1] \in {"{", "["} /\ IsJsonText(value)
                THEN Structured(SelectSeq(value, NotSpace))
                ELSE value

\* a list written with a blank inside has been extracted as a list
C21_Witness ==
    /\ pdone
    /\ ptext = ValueBlock(<<"[", "s", "1", "]">>)
    /\ Len(pcalls) = 1
    /\ pcalls[1].arguments["title"] = Structured(<<"[", "1", "]">>)

-----------------------------------------------------------------------------
(* The endpoint alone: send_chat_message with process_chat patched, as in
   tests/unit/test_chat_api.py *)

\* the exception classes a patched process_chat raises
ExceptionTypes == {"ValueError", "PermissionError", "ChatServiceError", "HTTPException",
                   "KeyError", "Exception"}

\* the messages they carry
RaisedTexts == ExceptionTexts \cup {"Invalid conversation_id format"}

\* `response = await process_chat(...)` with process_chat an AsyncMock that
\* returns a response or has an exception as its side_effect
process_chat_patched ==
    /\ pc = "svc_conv"
    /\ \/ /\ agent_result' = [returned |-> TRUE, message |-> DoneText, tool_calls |-> <<>>]
          /\ pc' = "api_return"
          /\ UNCHANGED <<exc, exc_text>>
       \/ /\ \E type \in ExceptionTypes, text \in RaisedTexts :
                /\ exc' = type
                /\ exc_text' = text
          /\ pc' = "api_except"
          /\ UNCHANGED agent_result
    /\ UNCHANGED <<parseVars, taskVars, sideVars, svcVars, storeVars, agentVars, http>>

ApiNext ==
    \/ SendChatMessage
    \/ process_chat_patched
    \/ ApiReturn
    \/ ApiExcept

SpecApi == Init /\ [][ApiNext]_vars

\* C22: send_chat_message answers 400 with the message of the exception when
\* processing raises ValueError, 403 when it raises PermissionError, and 500
\* with the fixed generic detail, which is not the text of the exception, for
\* every other exception.
C22_StatusByExceptionType ==
    (exc # "none" /\ pc # "api_except") =>
      /\ exc = "ValueError" => http.status = 400 /\ http.detail = exc_text
      /\ exc = "PermissionError" => http.status = 403
      /\ exc \notin {"ValueError", "PermissionError"} =>
            /\ http.status = 500
            /\ http.detail = SorryText
            /\ http.detail # exc_text

\* a KeyError whose message is a database URL has been answered with 500
C22_Witness ==
    /\ pc = "done"
    /\ exc = "KeyError"
    /\ exc_text \in SensitiveTexts
    /\ http.status = 500
    /\ http.detail = SorryText

-----------------------------------------------------------------------------
(* Feedback and ordering inside one cycle *)

\* C23: once every call of the turn has been handled and at least one result
\* is recorded, the request of the synthesis turn ends with the assistant turn
\* followed by one feedback entry per recorded result, in the order of
\* execution, each carrying the outcome of its own call: in structured mode
\* the entry for tool-call id X carries the result of call X, in inline mode
\* the summary lists the results in order.
C23_FeedbackPerResult ==
    (/\ mode \in {"structured", "xml"}
     /\ cursor > Len(calls)
     /\ tool_calls_data # <<>>
     /\ pc \notin {"dispatch_s", "dispatch_x"}) =>
      LET n == Len(tool_calls_data)
          last == Len(messages)
      IN  IF mode = "structured"
          THEN /\ last > n
               /\ messages[last - n].role = "assistant"
               /\ \A k \in 1..n :
                     /\ messages[last - n + k].role = "tool"
                     /\ messages[last - n + k].tool_call_id = tool_calls_data[k].idx
                     /\ messages[last - n + k].results = <<tool_calls_data[k]>>
          ELSE /\ last >= 2
               /\ messages[last - 1].role = "assistant"
               /\ messages[last].role = "user"
               /\ messages[last].results = tool_calls_data

\* the result of the i-th call of the turn is recorded
HasRecord(i) == \E j \in 1..Len(tool_calls_data) : tool_calls_data[j].idx = i

\* C24: within one cycle tool handlers never overlap: at most the handler
\* invoked last is running, every handler invoked before it has finished and
\* has its result recorded, and when the synthesis request is sent every call
\* of the turn has been handled and no handler is running.
C24_HandlersInSequence ==
    /\ running # 0 => (Len(invoked) > 0 /\ invoked[Len(invoked)] = running)
    /\ \A k \in 1..Len(invoked) :
          \/ HasRecord(invoked[k])
          \/ k = Len(invoked) /\ running = invoked[k]
    /\ (pc \in {"synth_s", "synth_x"} \/ providerCalls = 2) =>
          /\ running = 0
          /\ cursor > Len(calls)
          /\ \A k \in 1..Len(invoked) : HasRecord(invoked[k])

\* two handlers have run one after the other and the synthesis turn is next
C24_Witness ==
    /\ pc = "synth_s"
    /\ Len(invoked) = 2
    /\ Len(tool_calls_data) = 2
    /\ running = 0

-----------------------------------------------------------------------------
(* Persistence of the exchange *)

\* the store is `before` with one user row holding the request's message and
\* one assistant row holding the reply of the agent added to the request's
\* conversation
ExchangeSaved(before) ==
    /\ conversation # NoConv
    /\ \A c \in ConvIds \ {conversation} : msgStore[c] = before[c]
    /\ Len(msgStore[conversation]) = Len(before[conversation]) + 2
    /\ SubSeq(msgStore[conversation], 1, Len(before[conversation])) = before[conversation]
    /\ LET n == Len(msgStore[conversation])
           added == {msgStore[conversation][n - 1], msgStore[conversation][n]}
       IN  {[role |-> row.role, text |-> row.text] : row \in added}
             = {[role |-> "user", text |-> UserMessage],
                [role |-> "assistant", text |-> agent_result.message]}

\* C25 as stated: the exchange is persisted only after the agent has returned
\* a reply and at most once; when the agent fails nothing is saved, and when
\* it succeeds exactly one user message and one assistant message, the reply
\* returned, are saved to the conversation of the request.
C25_ExchangeSavedOnSuccess ==
    /\ ~agent_result.returned => msgStore \in InitialStores
    /\ msgStore \notin InitialStores => \E before \in InitialStores : ExchangeSaved(before)
    /\ (agent_result.returned /\ pc # "svc_save") => msgStore \notin InitialStores

\* C25 as amended: the exchange is persisted only after the agent has returned
\* a reply and at most once; a request whose agent fails saves nothing; a
\* request whose agent succeeds has saved either the one pair of user message
\* and reply, or, when saving failed, nothing.
C25_ExchangeSavedAtMostOnce ==
    /\ ~agent_result.returned => msgStore \in InitialStores
    /\ msgStore \notin InitialStores =>
          /\ agent_result.returned
          /\ pc \in {"svc_response", "svc_except", "api_return", "api_except", "done"}
          /\ \E before \in InitialStores : ExchangeSaved(before)
    /\ (pc = "done" /\ ~agent_result.returned) => http.status = 500

\* a reply has been returned and stored after the earlier exchange
C25_Witness ==
    /\ pc = "done"
    /\ http.status = 200
    /\ conversation = "c1"
    /\ Len(msgStore["c1"]) = 4
    /\ msgStore["c1"][4].text = http.message

-----------------------------------------------------------------------------
(* The Gemini path *)

\* the positions of the function_call parts of the first answer, in part order
RECURSIVE CallParts(_, _)
CallParts(parts, from) ==
    IF from > Len(parts) THEN <<>>
    ELSE (IF parts[from] = "text" THEN <<>> ELSE <<from>>) \o CallParts(parts, from + 1)

\* TodoAssistant.process_message has returned for a first answer whose
\* function calls all name registered tools
TodoReturnedRegistered ==
    /\ todo.assistant = "TodoAssistant"
    /\ todo.pc = "returned"
    /\ \A i \in 1..Len(todo.parts) : todo.parts[i] \in TOOL_FUNCTIONS \cup {"text"}

\* one record per function_call part of the first answer, in part order, and
\* one provider round-trip after each of them
OneRecordPerPart ==
    LET positions == CallParts(todo.parts, 1)
    IN  /\ Len(todo.tool_calls_executed) = Len(positions)
        /\ \A k \in 1..Len(positions) :
              /\ todo.tool_calls_executed[k].idx = positions[k]
              /\ todo.tool_calls_executed[k].tool_name = todo.parts[positions[k]]
        /\ todo.providerCalls = 1 + Len(positions)

\* C26 as stated: in the Gemini path, for a first answer with k function-call
\* parts of registered tools, process_message executes exactly k calls in part
\* order, sends one function response after each, and returns the k records in
\* that order together with the text of the last answer of the model.
C26_ReturnsLastText ==
    TodoReturnedRegistered => (OneRecordPerPart /\ todo.message = "text")

\* C26 as amended: the same, the message returned being the text of the last
\* answer or, when that answer has no text, the fixed sentence.
C26_ReturnsLastTextOrDefault ==
    TodoReturnedRegistered =>
      /\ OneRecordPerPart
      /\ todo.message = IF todo.has_text THEN "text"
                        ELSE IF Len(CallParts(todo.parts, 1)) > 0
                        THEN "I've processed your request."
                        ELSE "I'm sorry, I couldn't generate a response. Could you try rephrasing your request?"

\* two calls have been executed in part order, with three round-trips, and the
\* last answer had a text
C26_Witness ==
    /\ todo.pc = "returned"
    /\ todo.parts = <<"list_tasks", "add_task">>
    /\ Len(todo.tool_calls_executed) = 2
    /\ todo.tool_calls_executed[1].tool_name = "list_tasks"
    /\ todo.tool_calls_executed[2].tool_name = "add_task"
    /\ todo.providerCalls = 3
    /\ todo.message = "text"

-----------------------------------------------------------------------------
(* Structured turns without text, and turns of both protocols *)

\* the first answer carries structured call requests, all of registered tools
\* with payloads that deserialize
FirstCallsRunnable ==
    /\ first.status = "ok"
    /\ first.tool_calls # <<>>
    /\ \A i \in 1..Len(first.tool_calls) :
          /\ first.tool_calls[i].name \in TOOL_FUNCTIONS
          /\ json_loads(first.tool_calls[i].arguments).ok

\* C27: a structured first turn that carries call requests and no text (the
\* content is absent or null) is processed normally: no exception propagates
\* before the synthesis round-trip, every call is dispatched, and the
\* synthesis turn is made before the request ends.
C27_CallsWithoutTextProcessed ==
    (FirstCallsRunnable /\ first.content \in {None, Text(<<>>)}) =>
      /\ second = NoSecond =>
            /\ exc = "none"
            /\ pc \in {"agent_branch", "dispatch_s", "synth_s"}
      /\ pc = "synth_s" => invoked = [i \in 1..Len(calls) |-> i]
      /\ pc = "done" => providerCalls = 2

\* C28: a chat request that ends in an error leaves the stored conversations
\* and messages as they were before the request: it has created no
\* conversation and saved no message.
C28_FailedRequestChangesNothing ==
    (pc = "done" /\ http.status # 200) =>
      /\ convOwner = [c \in ConvIds |-> IF c = "c1" THEN "u1" ELSE NoUser]
      /\ msgStore \in InitialStores

\* the first answer carries structured call requests and inline blocks
BothProtocols ==
    /\ first.status = "ok"
    /\ first.tool_calls # <<>>
    /\ first.content.kind = "text"
    /\ HasOpenTag(first.content.text)

\* C29: when one turn carries structured call requests and inline <tool_call>
\* blocks in its text, one branch is taken: the calls of the turn are the
\* structured requests, every handler invoked and every result recorded
\* belongs to one of them, and no inline block is executed.
C29_StructuredBranchOnly ==
    BothProtocols =>
      /\ mode \in {"none", "structured"}
      /\ mode = "structured" => calls = first.tool_calls
      /\ \A k \in 1..Len(invoked) : invoked[k] \in 1..Len(first.tool_calls)
      /\ Len(tool_calls_data) <= Len(first.tool_calls)
      /\ \A j \in 1..Len(tool_calls_data) :
            tool_calls_data[j].tool_name = first.tool_calls[tool_calls_data[j].idx].name

\* a turn that asks for add_task by a structured request and for list_tasks
\* by an inline block has ended with add_task alone executed
C29_Witness ==
    /\ pc = "done"
    /\ http.status = 200
    /\ first.tool_calls = <<[name |-> "add_task", arguments |-> "{title}"]>>
    /\ first.content = Text(<<"O", "Fa", "C">>)
    /\ invoked = <<1>>
    /\ Len(tool_calls_data) = 1
    /\ tool_calls_data[1].tool_name = "add_task"

=============================================================================
